---------------------------- MODULE Spec2Model ----------------------------
(***************************************************************************)
(* Model of the Gantt planner's client store (src/lib/store.ts), of the    *)
(* chart's drag / resize commit handlers                                    *)
(* (src/components/gantt/gantt-chart.tsx), of the task edit form and of the *)
(* REST handlers the store talks to.                                        *)
(*                                                                          *)
(* A calendar date string "YYYY-MM-DDT00:00:00.000Z" is the triple          *)
(* <<y, m, d>>; a JavaScript Date at UTC midnight is its day number, counted *)
(* from 2024-01-01 (day 0).  Every asynchronous store operation is a record *)
(* of the sequence calls: its request is in flight (phase "req") until the  *)
(* server handles it, then its response is in flight (phase "resp") until   *)
(* the continuation after the await runs.                                   *)
(*                                                                          *)
(* Objects that the store mutates in place (project.order, task.order)      *)
(* carry a ref field: two records with the same id and ref are the same     *)
(* JavaScript object, so an in-place write reaches every array that holds   *)
(* it (the cache and the snapshots kept by operations in flight).           *)
(***************************************************************************)
EXTENDS Integers, Sequences, FiniteSets, TLC

\* ------------------------------------------------------------- bounds
\* Store operations started in one behaviour of the store specification.
MaxOps == 2
\* Gestures that reach the store in one behaviour of the chart specification,
\* saves and deletes in one behaviour of the form specification.
MaxChartOps == 1
\* Requests in flight at the same time.
MaxInFlight == 2
\* Largest day offset of a drag or resize gesture.
MaxOffset == 2
\* Gestures in progress at the same time: the bar's mousedown handlers accept
\* every mouse button, so a second button pressed during a gesture starts
\* another one.
MaxGestures == 1
\* Mousedowns on task bars in one behaviour.
MaxPresses == 2

\* Most days between the earliest start and the latest end of the task
\* collections the range calculator is applied to.
MaxSpan == 40

\* ------------------------------------------------- calendar arithmetic
IsLeap(y) == (y % 4 = 0 /\ y % 100 # 0) \/ y % 400 = 0

DaysInMonth(y, m) ==
    IF m = 2 THEN (IF IsLeap(y) THEN 29 ELSE 28)
    ELSE IF m \in {4, 6, 9, 11} THEN 30 ELSE 31

DaysInYear(y) == IF IsLeap(y) THEN 366 ELSE 365

Years == 2023..2025

RECURSIVE DaysBeforeYear(_)
DaysBeforeYear(y) ==
    IF y = 2024 THEN 0
    ELSE IF y > 2024 THEN DaysBeforeYear(y - 1) + DaysInYear(y - 1)
    ELSE DaysBeforeYear(y + 1) - DaysInYear(y)

RECURSIVE DaysBeforeMonth(_, _)
DaysBeforeMonth(y, m) ==
    IF m = 1 THEN 0 ELSE DaysBeforeMonth(y, m - 1) + DaysInMonth(y, m - 1)

\* new Date(Date.UTC(y, m - 1, d)): d may lie outside the month, the value
\* then rolls over into the neighbouring months.
DateUTC(y, m, d) == DaysBeforeYear(y) + DaysBeforeMonth(y, m) + (d - 1)

\* date.toISOString().split('T')[0], as <<y, m, d>>.
ISODate(n) ==
    LET y == CHOOSE yy \in Years :
                 DaysBeforeYear(yy) <= n /\ n < DaysBeforeYear(yy) + DaysInYear(yy)
        r == n - DaysBeforeYear(y)
        m == CHOOSE mm \in 1..12 :
                 DaysBeforeMonth(y, mm) <= r /\ r < DaysBeforeMonth(y, mm) + DaysInMonth(y, mm)
    IN  <<y, m, r - DaysBeforeMonth(y, m) + 1>>

\* str.split('T')[0].split('-').map(Number) followed by Date.UTC.
ParseDate(s) == DateUTC(s[1], s[2], s[3])

GetUTCDate(n) == ISODate(n)[3]

\* date.setUTCDate(dd) on the Date n: same year and month, day dd.
SetUTCDate(n, dd) == LET p == ISODate(n) IN DateUTC(p[1], p[2], dd)

\* ------------------------------------------------- instants and local time
\* A Date that carries a time of day is its time value in hours, counted from
\* 2024-01-01T00:00Z: the Date at UTC midnight of day n is 24 * n.
UTCMidnight(n) == 24 * n

\* The day number of the UTC calendar day of the instant t (getUTCFullYear,
\* getUTCMonth and getUTCDate together).
UTCDay(t) == t \div 24

\* The time zones of the executing machine in this model: UTC, a zone west
\* of Greenwich without daylight saving time, and a zone east of Greenwich
\* with it.
TimeZones == {"UTC", "America/Bogota", "Europe/Berlin"}

\* The day number of the last Sunday of month m of year y (day 0 is a Monday).
LastSunday(y, m) ==
    LET d == DateUTC(y, m, DaysInMonth(y, m)) IN d - ((d + 1) % 7)

\* Local time minus UTC at the instant t, in hours (the negated
\* getTimezoneOffset).  Summer time in Europe/Berlin runs from 01:00Z on the
\* last Sunday of March to 01:00Z on the last Sunday of October.
UTCOffset(t, tz) ==
    IF tz = "America/Bogota" THEN 0 - 5
    ELSE IF tz = "Europe/Berlin" THEN
        LET y == ISODate(UTCDay(t))[1]
        IN  IF UTCMidnight(LastSunday(y, 3)) + 1 <= t
               /\ t < UTCMidnight(LastSunday(y, 10)) + 1
            THEN 2 ELSE 1
    ELSE 0

\* The local wall clock at the instant t, on the scale of the instants.
LocalTime(t, tz) == t + UTCOffset(t, tz)

\* The instant of the local wall clock time l.  A wall clock time that a
\* transition skips or repeats is read with the offset in force before the
\* transition.
UTC(l, tz) ==
    LET before == UTCOffset(l - 24, tz)
        after == UTCOffset(l + 24, tz)
    IN  IF UTCOffset(l - before, tz) = before THEN l - before
        ELSE IF UTCOffset(l - after, tz) = after THEN l - after
        ELSE l - before

\* date.setDate(date.getDate() + n): the same local wall clock time n local
\* calendar days later.
SetDate(t, n, tz) == UTC(LocalTime(t, tz) + 24 * n, tz)

\* addDays of date-fns: setDate on a copy, in local time.
addDays(t, amount, tz) == IF amount = 0 THEN t ELSE SetDate(t, amount, tz)

\* compareLocalAsc of date-fns: the sign of the difference of the local
\* wall clock times.
compareLocalAsc(dateLeft, dateRight, tz) ==
    LET diff == LocalTime(dateLeft, tz) - LocalTime(dateRight, tz)
    IN  IF diff < 0 THEN 0 - 1 ELSE IF diff > 0 THEN 1 ELSE 0

\* differenceInCalendarDays of date-fns: the local calendar days between the
\* two instants.
differenceInCalendarDays(dateLeft, dateRight, tz) ==
    (LocalTime(dateLeft, tz) \div 24) - (LocalTime(dateRight, tz) \div 24)

\* differenceInDays of date-fns: the full local days between the two
\* instants.
differenceInDays(dateLeft, dateRight, tz) ==
    LET sign == compareLocalAsc(dateLeft, dateRight, tz)
        cal == differenceInCalendarDays(dateLeft, dateRight, tz)
        difference == IF cal < 0 THEN 0 - cal ELSE cal
        moved == SetDate(dateLeft, 0 - sign * difference, tz)
        isLastDayNotFull ==
            IF compareLocalAsc(moved, dateRight, tz) = 0 - sign THEN 1 ELSE 0
    IN  sign * (difference - isLastDayNotFull)

\* ------------------------------------------------------------ values
NoId == 0
NoError == "null"

\* The dates the edit form offers in this model.
FormDates == {<<2024, 1, 10>>, <<2024, 1, 12>>}

\* The <<startDate, endDate>> pairs updateTask is called with in the store
\* specification.
UpdateDates == {<<<<2024, 1, 13>>, <<2024, 1, 15>>>>, <<<<2024, 1, 11>>, <<2024, 1, 12>>>>}

ProjectNames == {"a", "b"}

VARIABLES
    projects,           \* store.projects: the cache
    isLoading,          \* store.isLoading
    error,              \* store.error
    selectedProjectId,  \* store.selectedProjectId
    selectedTask,       \* the task open in the edit form: <<>> (null) or <<task>>
    calls,              \* asynchronous operations in flight
    returned,           \* the result of the store operation that returned in
                        \* the last step, if one did
    settled,            \* the call whose fetch settled in the last step, if
                        \* one did, and how
    failed,             \* some request has failed so far
    nextRef,            \* identity of the next object created on the client
    nops,               \* store operations started so far
    sProjects,          \* server: Project table, id -> row
    sTasks,             \* server: Task table, id -> row
    sNextId,            \* server: next autoincrement id
    draggingTaskId,     \* chart state
    dragPreviewOffset,
    resizingTaskId,
    resizeEdge,
    resizePreviewOffset,
    hasMovement,        \* TaskBar state: the ids of the bars whose hasMovement
                        \* is true
    movementTimers,     \* the ids of the bars with a pending reset timer
    daysMoved,          \* the ids of the bars whose gesture in progress has
                        \* computed a nonzero daysOffset
    npresses,           \* mousedowns on bars so far
    listeners,          \* the ids of the bars whose mousemove and mouseup
                        \* listeners are registered on the document
    argument,           \* the call of a date or pixel function under
                        \* evaluation: its name and its arguments
    result              \* what that call returned, once it has

storeVars == <<projects, isLoading, error, selectedProjectId, selectedTask>>
serverVars == <<sProjects, sTasks, sNextId>>
barVars == <<hasMovement, movementTimers, daysMoved, npresses, listeners>>
chartVars == <<draggingTaskId, dragPreviewOffset, resizingTaskId, resizeEdge,
               resizePreviewOffset, barVars>>
obsVars == <<returned, settled, failed>>
fnVars == <<argument, result>>
vars == <<storeVars, calls, obsVars, nextRef, nops, serverVars, chartVars, fnVars>>

\* ------------------------------------------------------ sequence tools
RemoveAt(s, i) == SubSeq(s, 1, i - 1) \o SubSeq(s, i + 1, Len(s))

\* Array.prototype.sort with a comparator that subtracts keys; keys[i] is the
\* key of s[i].  The sort is stable: s[i] comes after every element with a
\* smaller key and after the earlier elements with the same key.
SortBy(s, keys) ==
    LET n == Len(s)
        Rank(i) == Cardinality({j \in 1..n : \/ keys[j] < keys[i]
                                             \/ keys[j] = keys[i] /\ j < i}) + 1
    IN  [p \in 1..n |-> s[CHOOSE i \in 1..n : Rank(i) = p]]

\* The order fields of a sequence of projects or tasks.
Orders(xs) == [i \in 1..Len(xs) |-> xs[i].order]

\* All orderings of a finite set, as sequences.
Perms(S) == {s \in [1..Cardinality(S) -> S] : \A i, j \in DOMAIN s : i # j => s[i] # s[j]}

\* The ids of a set as an ascending sequence.
RECURSIVE AscSeq(_)
AscSeq(S) ==
    IF S = {} THEN <<>>
    ELSE LET m == CHOOSE x \in S : \A y \in S : x <= y IN <<m>> \o AscSeq(S \ {m})

\* { ...a, ...b }
Merge(a, b) ==
    [f \in DOMAIN a \cup DOMAIN b |-> IF f \in DOMAIN b THEN b[f] ELSE a[f]]

\* ------------------------------------------------------------- server
\* A Task row as the JSON the API returns.
SrvTask(id) ==
    [id |-> id, projectId |-> sTasks[id].projectId,
     startDate |-> sTasks[id].startDate, endDate |-> sTasks[id].endDate,
     order |-> sTasks[id].order]

SrvTaskIdsOf(pid) == {t \in DOMAIN sTasks : sTasks[t].projectId = pid}

\* GET /api/projects/{id}: include tasks, orderBy order asc.
SrvProjectDetails(pid) ==
    [id |-> pid, order |-> sProjects[pid].order, name |-> sProjects[pid].name,
     tasks |-> LET asc == AscSeq(SrvTaskIdsOf(pid))
                   ids == SortBy(asc, [i \in 1..Len(asc) |-> sTasks[asc[i]].order])
               IN  [i \in 1..Len(ids) |-> SrvTask(ids[i])]]

\* One project of GET /api/projects: include tasks, in table (id) order.
SrvProjectListed(pid) ==
    [id |-> pid, order |-> sProjects[pid].order, name |-> sProjects[pid].name,
     tasks |-> LET ids == AscSeq(SrvTaskIdsOf(pid))
               IN  [i \in 1..Len(ids) |-> SrvTask(ids[i])]]

\* GET /api/projects: orderBy order desc.
SrvProjectList ==
    LET asc == AscSeq(DOMAIN sProjects)
        ids == SortBy(asc, [i \in 1..Len(asc) |-> 0 - sProjects[asc[i]].order])
    IN  [i \in 1..Len(ids) |-> SrvProjectListed(ids[i])]

\* POST /api/projects: order = max existing + 1, or 0.
SrvNextProjectOrder ==
    IF DOMAIN sProjects = {} THEN 0
    ELSE (CHOOSE o \in {sProjects[p].order : p \in DOMAIN sProjects} :
              \A p \in DOMAIN sProjects : sProjects[p].order <= o) + 1

\* POST /api/tasks: order ?? (max order in the project + 1, or 1).
SrvNextTaskOrder(pid) ==
    IF SrvTaskIdsOf(pid) = {} THEN 1
    ELSE (CHOOSE o \in {sTasks[t].order : t \in SrvTaskIdsOf(pid)} :
              \A t \in SrvTaskIdsOf(pid) : sTasks[t].order <= o) + 1

\* Batch order update of PATCH: prisma.update of every listed row that
\* exists (Promise.all does not undo the updates that succeeded).
PatchOrders(table, items) ==
    [id \in DOMAIN table |->
        IF \E i \in 1..Len(items) : items[i].id = id
        THEN [table[id] EXCEPT !.order =
                 items[CHOOSE i \in 1..Len(items) : items[i].id = id].order]
        ELSE table[id]]

\* ---------------------------------------------------- cache operations
\* JSON.parse of a response: every object is a new one.
NewTask(t, r) == Merge(t, [ref |-> r])

NewProject(p, r) ==
    [id |-> p.id, order |-> p.order, name |-> p.name, ref |-> r,
     tasks |-> [i \in 1..Len(p.tasks) |-> NewTask(p.tasks[i], r)]]

\* The fields of a cached object that the server also holds.
TaskVal(t) ==
    [id |-> t.id, projectId |-> t.projectId, startDate |-> t.startDate,
     endDate |-> t.endDate, order |-> t.order]

ProjectVal(p) ==
    [id |-> p.id, order |-> p.order, name |-> p.name,
     tasks |-> [i \in 1..Len(p.tasks) |-> TaskVal(p.tasks[i])]]

HasTask(p, id) == \E i \in 1..Len(p.tasks) : p.tasks[i].id = id

\* getTaskById: <<>> for undefined.
getTaskById(ps, id) ==
    IF \E i \in 1..Len(ps) : HasTask(ps[i], id)
    THEN LET i == CHOOSE k \in 1..Len(ps) :
                      HasTask(ps[k], id) /\ \A j \in 1..(k - 1) : ~HasTask(ps[j], id)
             j == CHOOSE k \in 1..Len(ps[i].tasks) :
                      /\ ps[i].tasks[k].id = id
                      /\ \A l \in 1..(k - 1) : ps[i].tasks[l].id # id
         IN  <<ps[i].tasks[j]>>
    ELSE <<>>

getProjectIndex(ps, pid) ==
    IF \E i \in 1..Len(ps) : ps[i].id = pid
    THEN CHOOSE i \in 1..Len(ps) : ps[i].id = pid /\ \A j \in 1..(i - 1) : ps[j].id # pid
    ELSE 0

CachedProjectIds(ps) == {ps[i].id : i \in 1..Len(ps)}

\* Every task of the cache, project by project, in array order.
RECURSIVE CachedTasks(_)
CachedTasks(ps) ==
    IF ps = <<>> THEN <<>> ELSE Head(ps).tasks \o CachedTasks(Tail(ps))

\* The task replaced in the first project that holds its id, whatever
\* task.projectId names; appended to the project task.projectId names when no
\* project holds it.
setTaskWhereHeld(ps, task, r) ==
    LET held == {i \in 1..Len(ps) : HasTask(ps[i], task.id)}
        pi == IF held # {} THEN CHOOSE i \in held : \A j \in held : i <= j
              ELSE getProjectIndex(ps, task.projectId)
    IN  IF pi = 0 THEN ps
        ELSE LET project == ps[pi]
                 tasks == IF pi \in held
                          THEN [k \in 1..Len(project.tasks) |->
                                   IF project.tasks[k].id = task.id THEN task
                                   ELSE project.tasks[k]]
                          ELSE Append(project.tasks, task)
             IN  [ps EXCEPT ![pi] = [project EXCEPT !.tasks = tasks, !.ref = r]]

\* setTask: replaces the task in the project task.projectId names, or
\* appends it there; r is the identity of the new project object.
setTask(ps, task, r) ==
    LET pi == getProjectIndex(ps, task.projectId) IN
    IF pi = 0 THEN ps
    ELSE LET project == ps[pi]
             ti == IF HasTask(project, task.id)
                   THEN CHOOSE k \in 1..Len(project.tasks) :
                            /\ project.tasks[k].id = task.id
                            /\ \A l \in 1..(k - 1) : project.tasks[l].id # task.id
                   ELSE 0
             tasks == IF ti # 0 THEN [project.tasks EXCEPT ![ti] = task]
                      ELSE Append(project.tasks, task)
         IN  [ps EXCEPT ![pi] = [project EXCEPT !.tasks = tasks, !.ref = r]]

\* project.order = v on the object (id, ref), seen through the array ps.
PokeProjectOrder(ps, id, ref, v) ==
    [i \in 1..Len(ps) |->
        IF ps[i].id = id /\ ps[i].ref = ref THEN [ps[i] EXCEPT !.order = v] ELSE ps[i]]

\* task.order = v on the object (id, ref), seen through the array ps.
PokeTaskOrder(ps, id, ref, v) ==
    [i \in 1..Len(ps) |->
        [ps[i] EXCEPT !.tasks =
            [j \in 1..Len(ps[i].tasks) |->
                IF ps[i].tasks[j].id = id /\ ps[i].tasks[j].ref = ref
                THEN [ps[i].tasks[j] EXCEPT !.order = v]
                ELSE ps[i].tasks[j]]]]

\* Index of id in ids (indexOf), 0-based; -1 when absent.
IndexOf(ids, id) ==
    IF \E i \in 1..Len(ids) : ids[i] = id
    THEN (CHOOSE i \in 1..Len(ids) : ids[i] = id /\ \A j \in 1..(i - 1) : ids[j] # id) - 1
    ELSE -1

\* [...xs].sort by position in ids; entries whose id is not listed go last.
SortByIds(xs, ids) ==
    LET Key(x) == IF IndexOf(ids, x.id) = -1 THEN Len(ids) ELSE IndexOf(ids, x.id)
    IN  SortBy(xs, [i \in 1..Len(xs) |-> Key(xs[i])])

\* fetchProjects: projectsArray.sort((a, b) => b.order - a.order)
SortDescByOrder(ps) ==
    SortBy(ps, [i \in 1..Len(ps) |-> 0 - ps[i].order])

\* ------------------------------------------------------ calls in flight
NoSnap == <<>>

\* before is the cache at the moment the user started the operation; the
\* program does not read it.
Call(op, arg, snap) ==
    [op |-> op, phase |-> "req", arg |-> arg, snap |-> snap, ok |-> FALSE,
     data |-> <<>>, before |-> <<>>]

NoReturn == [op |-> "none", ok |-> TRUE, why |-> "none"]

NoSettle == [call |-> Call("none", <<>>, NoSnap), out |-> "none"]

\* The snapshots of the operations in flight replaced by snaps: an in-place
\* write reaches them too.
WithSnaps(cs, snaps) == [i \in 1..Len(cs) |-> [cs[i] EXCEPT !.snap = snaps[i]]]


\* ---------------------------------------------------- store operations
\* The client state the store functions read and write, as one record; an
\* operation maps the state before to the state after its synchronous part.
Cur ==
    [projects |-> projects, isLoading |-> isLoading, error |-> error,
     selectedProjectId |-> selectedProjectId, selectedTask |-> selectedTask,
     calls |-> calls, returned |-> NoReturn, nextRef |-> nextRef]

Commit(S) ==
    /\ projects' = S.projects
    /\ isLoading' = S.isLoading
    /\ error' = S.error
    /\ selectedProjectId' = S.selectedProjectId
    /\ selectedTask' = S.selectedTask
    /\ calls' = S.calls
    /\ returned' = S.returned
    /\ nextRef' = S.nextRef

\* The operation op resolves: ok is its result, why the branch that produced
\* it.
Return(S, op, ok, why) ==
    [S EXCEPT !.returned = [op |-> op, ok |-> ok, why |-> why]]

Send(S, op, arg, snap) == [S EXCEPT !.calls = Append(@, Call(op, arg, snap))]

\* fetchProjects up to its await.
fetchProjectsSync(S) ==
    Send([S EXCEPT !.isLoading = TRUE, !.error = NoError], "fetchProjects", <<>>, NoSnap)

\* fetchProjects after its await; out is "ok", "status" (non-2xx) or "throw".
fetchProjectsResume(S, c, out) ==
    IF out = "ok"
    THEN [S EXCEPT !.projects = SortDescByOrder(
                        [i \in 1..Len(c.data) |-> NewProject(c.data[i], S.nextRef)]),
                   !.isLoading = FALSE, !.nextRef = @ + 1]
    ELSE IF out = "status"
    THEN [S EXCEPT !.error = "Failed to fetch projects", !.isLoading = FALSE]
    ELSE [S EXCEPT !.error = "Error fetching projects", !.isLoading = FALSE]

\* fetchProjectDetails up to its await.
fetchProjectDetailsSync(S, pid) ==
    Send([S EXCEPT !.isLoading = TRUE, !.error = NoError, !.selectedProjectId = pid],
         "fetchProjectDetails", [projectId |-> pid], NoSnap)

fetchProjectDetailsResume(S, c, out) ==
    IF out = "ok"
    THEN LET pd == NewProject(c.data, S.nextRef)
             pi == getProjectIndex(S.projects, c.arg.projectId)
         IN  Return([S EXCEPT !.projects = IF pi # 0 THEN [@ EXCEPT ![pi] = pd]
                                           ELSE Append(@, pd),
                              !.isLoading = FALSE, !.nextRef = @ + 1],
                    "fetchProjectDetails", TRUE, "ok")
    ELSE IF out = "status"
    THEN Return([S EXCEPT !.error = "Failed to fetch project details",
                          !.isLoading = FALSE], "fetchProjectDetails", FALSE, out)
    ELSE Return([S EXCEPT !.error = "Error fetching project details",
                          !.isLoading = FALSE], "fetchProjectDetails", FALSE, out)

\* addProject: no optimistic step.
addProjectSync(S, project) == Send(S, "addProject", project, NoSnap)

addProjectResume(S, c, out) ==
    IF out = "ok"
    THEN Return([S EXCEPT !.projects = Append(@, NewProject(
                                 Merge(c.data, [tasks |-> <<>>]), S.nextRef)),
                          !.nextRef = @ + 1], "addProject", TRUE, "ok")
    ELSE IF out = "status"
    THEN Return([S EXCEPT !.error = "Failed to add project"], "addProject", FALSE, out)
    ELSE Return([S EXCEPT !.error = "Error adding project"], "addProject", FALSE, out)

\* updateProject up to its await: snapshot, optimistic merge.
updateProjectSync(S, project) ==
    LET currentProjects == S.projects
        pi == getProjectIndex(currentProjects, project.id)
        merged == IF pi = 0 THEN currentProjects
                  ELSE [currentProjects EXCEPT ![pi] =
                           Merge(Merge(@, project), [ref |-> S.nextRef])]
    IN  Send([S EXCEPT !.projects = merged, !.nextRef = @ + 1],
             "updateProject", project, currentProjects)

updateProjectResume(S, c, out) ==
    IF out = "ok"
    THEN Return(fetchProjectsSync(S), "updateProject", TRUE, "ok")
    ELSE IF out = "status"
    THEN Return([S EXCEPT !.projects = c.snap, !.error = "Failed to update project"],
                "updateProject", FALSE, out)
    ELSE Return([S EXCEPT !.error = "Error updating project"],
                "updateProject", FALSE, out)

\* deleteProject up to its await: snapshot, optimistic removal.
deleteProjectSync(S, projectId) ==
    LET currentProjects == S.projects
        Keep(p) == p.id # projectId
    IN  Send([S EXCEPT !.projects = SelectSeq(currentProjects, Keep)],
             "deleteProject", [projectId |-> projectId], currentProjects)

deleteProjectResume(S, c, out) ==
    IF out = "ok"
    THEN Return([S EXCEPT !.selectedProjectId =
                     IF @ = c.arg.projectId THEN NoId ELSE @],
                "deleteProject", TRUE, "ok")
    ELSE IF out = "status"
    THEN Return([S EXCEPT !.projects = c.snap, !.error = "Failed to delete project"],
                "deleteProject", FALSE, out)
    ELSE Return([S EXCEPT !.error = "Error deleting project"],
                "deleteProject", FALSE, out)

\* ProjectsWithNewOrder with order = index.
ProjectsWithIndexOrder(projectIds) ==
    [i \in 1..Len(projectIds) |-> [id |-> projectIds[i], order |-> i - 1]]

\* The order values reorderProjects sends: projectIds.length - index.
ProjectsWithNewOrder(projectIds) ==
    [i \in 1..Len(projectIds) |->
        [id |-> projectIds[i], order |-> Len(projectIds) - (i - 1)]]

\* updatedProjects.forEach: project.order = projectIds.length - index, written
\* on the project objects themselves, for the entries k..Len(sorted) of the
\* sorted copy; xs is any array that may hold some of those objects.
RECURSIVE PokeProjectOrders(_, _, _, _)
PokeProjectOrders(xs, sorted, projectIds, k) ==
    IF k > Len(sorted) THEN xs
    ELSE LET p == sorted[k]
             ys == IF IndexOf(projectIds, p.id) # -1
                   THEN PokeProjectOrder(xs, p.id, p.ref, Len(projectIds) - (k - 1))
                   ELSE xs
         IN  PokeProjectOrders(ys, sorted, projectIds, k + 1)

\* reorderProjects up to its await.
reorderProjectsSync(S, projectIds) ==
    LET currentProjects == S.projects
        sorted == SortByIds(currentProjects, projectIds)
        Poke(xs) == PokeProjectOrders(xs, sorted, projectIds, 1)
    IN  Send([S EXCEPT !.projects = Poke(sorted),
                       !.calls = WithSnaps(@, [i \in 1..Len(@) |-> Poke(@[i].snap)])],
             "reorderProjects", [projects |-> ProjectsWithNewOrder(projectIds)],
             Poke(currentProjects))

reorderProjectsResume(S, c, out) ==
    IF out = "ok" THEN Return(S, "reorderProjects", TRUE, "ok")
    ELSE IF out = "status"
    THEN Return([S EXCEPT !.projects = c.snap, !.error = "Failed to reorder projects"],
                "reorderProjects", FALSE, out)
    ELSE Return([S EXCEPT !.error = "Error reordering projects"],
                "reorderProjects", FALSE, out)


\* addTask: no optimistic step; task is the request body (no id).
addTaskSync(S, task) == Send(S, "addTask", task, NoSnap)

addTaskResume(S, c, out) ==
    IF out = "ok"
    THEN LET newTask == NewTask(c.data, S.nextRef)
             pi == getProjectIndex(S.projects, c.arg.projectId)
         IN  Return([S EXCEPT !.projects =
                         IF pi = 0 THEN @
                         ELSE [@ EXCEPT ![pi] = [@ EXCEPT !.tasks = Append(@, newTask),
                                                          !.ref = S.nextRef]],
                              !.nextRef = @ + 1], "addTask", TRUE, "ok")
    ELSE IF out = "status"
    THEN Return([S EXCEPT !.error = "Failed to add task"], "addTask", FALSE, out)
    ELSE Return([S EXCEPT !.error = "Error adding task"], "addTask", FALSE, out)

\* updateTask up to its first await (normal mode) or to its return (silent
\* mode): merge into the cached task, setTask, send the whole merged task.
updateTaskSync(S, task, silentUpdate) ==
    LET found == getTaskById(S.projects, task.id) IN
    IF task.id = NoId \/ found = <<>>
    THEN Return(S, "updateTask", FALSE, "noop")
    ELSE LET fullTask == found[1]
             updatedTask == Merge(Merge(fullTask, task), [ref |-> S.nextRef])
             S1 == [S EXCEPT !.projects = setTask(@, updatedTask, S.nextRef),
                             !.nextRef = @ + 1]
             arg == [body |-> TaskVal(updatedTask), projectId |-> fullTask.projectId]
         IN  IF silentUpdate
             THEN Return(Send(S1, "updateTaskSilent", arg, NoSnap),
                         "updateTask", TRUE, "silent")
             ELSE Send(S1, "updateTask", arg, NoSnap)

\* Normal mode after the await.
updateTaskResume(S, c, out) ==
    IF out = "ok"
    THEN Return([S EXCEPT !.projects = setTask(@, NewTask(c.data, S.nextRef), S.nextRef),
                          !.selectedTask = <<>>, !.nextRef = @ + 1],
                "updateTask", TRUE, "ok")
    ELSE IF out = "status"
    THEN LET S1 == IF c.arg.projectId # NoId
                   THEN fetchProjectDetailsSync(S, c.arg.projectId)
                   ELSE fetchProjectsSync(S)
         IN  Return([S1 EXCEPT !.error = "Failed to update task"],
                    "updateTask", FALSE, out)
    ELSE Return(fetchProjectsSync([S EXCEPT !.error = "Error updating task"]),
                "updateTask", FALSE, out)

\* Silent mode: the response is not read; a rejection of the fetch promise is
\* logged by the .catch.
updateTaskSilentResume(S, c, out) == S

\* deleteTask up to its await.
deleteTaskSync(S, taskId) ==
    LET found == getTaskById(S.projects, taskId) IN
    IF found = <<>> THEN Return(S, "deleteTask", FALSE, "noop")
    ELSE LET task == found[1]
             pi == getProjectIndex(S.projects, task.projectId)
             Keep(t) == t.id # taskId
             S1 == IF pi = 0 THEN S
                   ELSE [S EXCEPT !.projects =
                             [@ EXCEPT ![pi] = [@ EXCEPT !.tasks = SelectSeq(@, Keep),
                                                          !.ref = S.nextRef]],
                                  !.selectedTask = <<>>, !.nextRef = @ + 1]
         IN  Send(S1, "deleteTask", [taskId |-> taskId, projectId |-> task.projectId],
                  NoSnap)

deleteTaskResume(S, c, out) ==
    IF out = "ok" THEN Return(S, "deleteTask", TRUE, "ok")
    ELSE IF out = "status"
    THEN LET S1 == IF c.arg.projectId # NoId
                   THEN fetchProjectDetailsSync(S, c.arg.projectId)
                   ELSE fetchProjectsSync(S)
         IN  Return([S1 EXCEPT !.error = "Failed to delete task"],
                    "deleteTask", FALSE, out)
    ELSE Return(fetchProjectsSync([S EXCEPT !.error = "Error deleting task"]),
                "deleteTask", FALSE, out)

\* TasksWithNewOrder with order = index.
TasksWithUnitOrder(taskIds) ==
    [i \in 1..Len(taskIds) |-> [id |-> taskIds[i], order |-> i - 1]]

\* The order values reorderTasks sends: index * 10.
TasksWithNewOrder(taskIds) ==
    [i \in 1..Len(taskIds) |-> [id |-> taskIds[i], order |-> (i - 1) * 10]]

\* updatedTasks.forEach: task.order = index * 10, written on the task objects
\* themselves, for the entries k..Len(sorted) of the sorted copy.
RECURSIVE PokeTaskOrders(_, _, _, _)
PokeTaskOrders(xs, sorted, taskIds, k) ==
    IF k > Len(sorted) THEN xs
    ELSE LET t == sorted[k]
             ys == IF IndexOf(taskIds, t.id) # -1
                   THEN PokeTaskOrder(xs, t.id, t.ref, (k - 1) * 10)
                   ELSE xs
         IN  PokeTaskOrders(ys, sorted, taskIds, k + 1)

\* reorderTasks up to its await.
reorderTasksSync(S, projectId, taskIds) ==
    LET pi == getProjectIndex(S.projects, projectId) IN
    IF pi = 0 THEN Return(S, "reorderTasks", FALSE, "noop")
    ELSE LET sorted == SortByIds(S.projects[pi].tasks, taskIds)
             Poke(xs) == PokeTaskOrders(xs, sorted, taskIds, 1)
             poked == Poke(S.projects)
             updatedProject == [poked[pi] EXCEPT !.tasks = SortByIds(@, taskIds),
                                                 !.ref = S.nextRef]
         IN  Send([S EXCEPT !.projects = [poked EXCEPT ![pi] = updatedProject],
                            !.calls = WithSnaps(@, [i \in 1..Len(@) |-> Poke(@[i].snap)]),
                            !.nextRef = @ + 1],
                  "reorderTasks",
                  [tasks |-> TasksWithNewOrder(taskIds), projectId |-> projectId],
                  NoSnap)

reorderTasksResume(S, c, out) ==
    IF out = "ok" THEN Return(S, "reorderTasks", TRUE, "ok")
    ELSE IF out = "status"
    THEN Return(fetchProjectDetailsSync(S, c.arg.projectId),
                "reorderTasks", FALSE, out)
    ELSE Return([S EXCEPT !.error = "Error reordering tasks"],
                "reorderTasks", FALSE, out)

\* The continuation of the operation c after its await.
Resume(S, c, out) ==
    CASE c.op = "fetchProjects" -> fetchProjectsResume(S, c, out)
      [] c.op = "fetchProjectDetails" -> fetchProjectDetailsResume(S, c, out)
      [] c.op = "addProject" -> addProjectResume(S, c, out)
      [] c.op = "updateProject" -> updateProjectResume(S, c, out)
      [] c.op = "deleteProject" -> deleteProjectResume(S, c, out)
      [] c.op = "reorderProjects" -> reorderProjectsResume(S, c, out)
      [] c.op = "addTask" -> addTaskResume(S, c, out)
      [] c.op = "updateTask" -> updateTaskResume(S, c, out)
      [] c.op = "updateTaskSilent" -> updateTaskSilentResume(S, c, out)
      [] c.op = "deleteTask" -> deleteTaskResume(S, c, out)
      [] c.op = "reorderTasks" -> reorderTasksResume(S, c, out)


\* ------------------------------------------------------ server handlers
\* What the route handler of the request c answers and leaves in the tables.
SrvAnswer(ok, data, ps, ts, nx) ==
    [ok |-> ok, data |-> data, sProjects |-> ps, sTasks |-> ts, sNextId |-> nx]

SrvFail == SrvAnswer(FALSE, <<>>, sProjects, sTasks, sNextId)

SrvRow(b) ==
    [projectId |-> b.projectId, startDate |-> b.startDate, endDate |-> b.endDate,
     order |-> b.order]

\* PUT /api/tasks/{id}
SrvPutTask(b) ==
    IF b.id \in DOMAIN sTasks /\ b.projectId \in DOMAIN sProjects
    THEN SrvAnswer(TRUE, Merge(SrvRow(b), [id |-> b.id]), sProjects,
                   [sTasks EXCEPT ![b.id] = SrvRow(b)], sNextId)
    ELSE SrvFail

\* POST /api/tasks
SrvPostTask(b) ==
    IF b.projectId \in DOMAIN sProjects
    THEN LET id == sNextId.task
             row == [projectId |-> b.projectId, startDate |-> b.startDate,
                     endDate |-> b.endDate,
                     order |-> IF "order" \in DOMAIN b THEN b.order
                               ELSE SrvNextTaskOrder(b.projectId)]
         IN  SrvAnswer(TRUE, Merge(row, [id |-> id]), sProjects,
                       [t \in DOMAIN sTasks \cup {id} |->
                           IF t = id THEN row ELSE sTasks[t]],
                       [sNextId EXCEPT !.task = @ + 1])
    ELSE SrvFail

\* DELETE /api/tasks/{id}
SrvDeleteTask(id) ==
    IF id \in DOMAIN sTasks
    THEN SrvAnswer(TRUE, <<>>, sProjects,
                   [t \in DOMAIN sTasks \ {id} |-> sTasks[t]], sNextId)
    ELSE SrvFail

\* POST /api/projects
SrvPostProject(b) ==
    LET id == sNextId.project
        row == [order |-> SrvNextProjectOrder, name |-> b.name]
    IN  SrvAnswer(TRUE, [id |-> id, order |-> row.order, name |-> row.name],
                  [p \in DOMAIN sProjects \cup {id} |->
                      IF p = id THEN row ELSE sProjects[p]],
                  sTasks, [sNextId EXCEPT !.project = @ + 1])

\* PUT /api/projects/{id}
SrvPutProject(b) ==
    IF b.id \in DOMAIN sProjects
    THEN SrvAnswer(TRUE, [id |-> b.id, order |-> sProjects[b.id].order, name |-> b.name],
                   [sProjects EXCEPT ![b.id].name = b.name], sTasks, sNextId)
    ELSE SrvFail

\* DELETE /api/projects/{id}: the tasks go with the project (onDelete: Cascade).
SrvDeleteProject(id) ==
    IF id \in DOMAIN sProjects
    THEN SrvAnswer(TRUE, <<>>, [p \in DOMAIN sProjects \ {id} |-> sProjects[p]],
                   [t \in {u \in DOMAIN sTasks : sTasks[u].projectId # id} |-> sTasks[t]],
                   sNextId)
    ELSE SrvFail

\* PATCH /api/projects and PATCH /api/tasks
SrvPatchProjects(items) ==
    SrvAnswer(\A i \in 1..Len(items) : items[i].id \in DOMAIN sProjects, <<>>,
              PatchOrders(sProjects, items), sTasks, sNextId)

SrvPatchTasks(items) ==
    SrvAnswer(\A i \in 1..Len(items) : items[i].id \in DOMAIN sTasks, <<>>,
              sProjects, PatchOrders(sTasks, items), sNextId)

SrvGetProjects == SrvAnswer(TRUE, SrvProjectList, sProjects, sTasks, sNextId)

SrvGetProject(pid) ==
    IF pid \in DOMAIN sProjects
    THEN SrvAnswer(TRUE, SrvProjectDetails(pid), sProjects, sTasks, sNextId)
    ELSE SrvFail

SrvHandle(c) ==
    CASE c.op = "fetchProjects" -> SrvGetProjects
      [] c.op = "fetchProjectDetails" -> SrvGetProject(c.arg.projectId)
      [] c.op = "addProject" -> SrvPostProject(c.arg)
      [] c.op = "updateProject" -> SrvPutProject(c.arg)
      [] c.op = "deleteProject" -> SrvDeleteProject(c.arg.projectId)
      [] c.op = "reorderProjects" -> SrvPatchProjects(c.arg.projects)
      [] c.op = "addTask" -> SrvPostTask(c.arg)
      [] c.op \in {"updateTask", "updateTaskSilent"} -> SrvPutTask(c.arg.body)
      [] c.op = "deleteTask" -> SrvDeleteTask(c.arg.taskId)
      [] c.op = "reorderTasks" -> SrvPatchTasks(c.arg.tasks)


\* ------------------------------------------------------------- chart
\* getAllTasks: the tasks of every project, each project's sorted by order.
RECURSIVE getAllTasks(_)
getAllTasks(ps) ==
    IF ps = <<>> THEN <<>>
    ELSE SortBy(Head(ps).tasks, Orders(Head(ps).tasks)) \o getAllTasks(Tail(ps))

\* tasks.find(t => t.id === id): <<>> for undefined.
FindTask(tasks, id) ==
    LET Is(t) == t.id = id
        found == SelectSeq(tasks, Is)
    IN  IF found = <<>> THEN <<>> ELSE <<found[1]>>

\* normalizeToUTCDate of the chart: new Date(date) of an ISO date string,
\* rebuilt at UTC midnight from its UTC year, month and day.
normalizeToUTCDateChart(date) == UTCMidnight(UTCDay(UTCMidnight(ParseDate(date))))

\* while (current <= end) { range.push(new Date(current));
\*                          current = addDays(current, 1); }
RECURSIVE DaysUpTo(_, _, _)
DaysUpTo(current, end, tz) ==
    IF current <= end
    THEN <<current>> \o DaysUpTo(addDays(current, 1, tz), end, tz)
    ELSE <<>>

\* The range setTimeRange receives: the instants of its entries, in order.
\* today is the value of new Date(), tz the zone of the machine.
calculateTimeRange(taskList, today, tz) ==
    IF Len(taskList) = 0 THEN
        LET p == ISODate(UTCDay(today))
            start == UTCMidnight(DateUTC(p[1], p[2], 1))
            end == UTCMidnight(DateUTC(p[1], p[2] + 1, 0))
        IN  DaysUpTo(start, end, tz)
    ELSE
        LET starts == {normalizeToUTCDateChart(taskList[i].startDate) :
                          i \in 1..Len(taskList)}
            ends == {normalizeToUTCDateChart(taskList[i].endDate) :
                        i \in 1..Len(taskList)}
            earliestDate == CHOOSE d \in starts : \A e \in starts : d <= e
            latestDate == CHOOSE d \in ends : \A e \in ends : e <= d
        IN  DaysUpTo(addDays(earliestDate, 0 - 3, tz), addDays(latestDate, 3, tz), tz)

NoEdge == "null"

\* DragDates with the end date left where it was.
DragDatesStartOnly(task, offset) ==
    [id |-> task.id,
     startDate |-> ISODate(ParseDate(task.startDate) + offset),
     endDate |-> task.endDate]

\* The dates handleTaskDragEnd sends for the task after a drag by offset days.
DragDates(task, offset) ==
    LET startDate == ParseDate(task.startDate)
        endDate == ParseDate(task.endDate)
        newStartDate == SetUTCDate(startDate, GetUTCDate(startDate) + offset)
        newEndDate == SetUTCDate(endDate, GetUTCDate(endDate) + offset)
    IN  [id |-> task.id, startDate |-> ISODate(newStartDate),
         endDate |-> ISODate(newEndDate)]

\* ResizeDates without the clamps.
ResizeDatesUnclamped(task, edge, offset) ==
    [id |-> task.id,
     startDate |-> IF edge = "start" THEN ISODate(ParseDate(task.startDate) + offset)
                   ELSE task.startDate,
     endDate |-> IF edge = "start" THEN task.endDate
                 ELSE ISODate(ParseDate(task.endDate) + offset)]

\* The dates handleTaskResizeEnd sends after moving the edge by offset days.
ResizeDates(task, edge, offset) ==
    LET startDate == ParseDate(task.startDate)
        endDate == ParseDate(task.endDate)
        movedStart == SetUTCDate(startDate, GetUTCDate(startDate) + offset)
        movedEnd == SetUTCDate(endDate, GetUTCDate(endDate) + offset)
        newStartDate == IF edge = "start"
                        THEN (IF movedStart >= endDate
                              THEN SetUTCDate(endDate, GetUTCDate(endDate) - 1)
                              ELSE movedStart)
                        ELSE startDate
        newEndDate == IF edge = "start" THEN endDate
                      ELSE (IF movedEnd <= startDate
                            THEN SetUTCDate(startDate, GetUTCDate(startDate) + 1)
                            ELSE movedEnd)
    IN  [id |-> task.id, startDate |-> ISODate(newStartDate),
         endDate |-> ISODate(newEndDate)]

\* handleTaskDragEnd without the test dragPreviewOffset !== 0.
handleTaskDragEndAnyOffset(S, tasks, taskId, offset) ==
    IF taskId # NoId /\ FindTask(tasks, taskId) # <<>>
    THEN updateTaskSync(S, DragDates(FindTask(tasks, taskId)[1], offset), TRUE)
    ELSE S

\* handleTaskDragEnd up to the state resets; tasks is the task list of the
\* render the handler was created in.
handleTaskDragEnd(S, tasks, taskId, offset) ==
    IF taskId # NoId /\ offset # 0 /\ FindTask(tasks, taskId) # <<>>
    THEN updateTaskSync(S, DragDates(FindTask(tasks, taskId)[1], offset), TRUE)
    ELSE S

\* handleTaskResizeEnd up to the state resets.
handleTaskResizeEnd(S, tasks, taskId, edge, offset) ==
    IF taskId # NoId /\ edge # NoEdge /\ offset # 0 /\ FindTask(tasks, taskId) # <<>>
    THEN updateTaskSync(S, ResizeDates(FindTask(tasks, taskId)[1], edge, offset), TRUE)
    ELSE S

\* The task ids handleDragEnd passes to reorderTasks when the row at index
\* src (0-based) of the project is dropped at index dst.
DropTaskIds(tasks, projectId, src, dst) ==
    LET Of(t) == t.projectId = projectId
        ofProject == SelectSeq(tasks, Of)
        projectTasks == SortBy(ofProject, Orders(ofProject))
        taskIds == [i \in 1..Len(projectTasks) |-> projectTasks[i].id]
        taskId == taskIds[src + 1]
        removed == RemoveAt(taskIds, src + 1)
    IN  SubSeq(removed, 1, dst) \o <<taskId>> \o SubSeq(removed, dst + 1, Len(removed))

\* The new task handleAddTask opens the edit form with (All Projects view:
\* first project of the list, order 0).
NewTaskDraft(ps, today) ==
    [id |-> NoId, projectId |-> ps[1].id, startDate |-> today,
     endDate |-> ISODate(ParseDate(today) + 1), order |-> 0]

\* handleAddTask in the view of the chart's projectId prop (NoId: All
\* Projects): the target is that project, else the first of the list; the
\* order is currentProject?.tasks?.length || 0, and currentProject is null in
\* the All Projects view.
handleAddTask(ps, projectId, today) ==
    IF projectId = NoId
    THEN NewTaskDraft(ps, today)
    ELSE [NewTaskDraft(ps, today) EXCEPT
              !.projectId = projectId,
              !.order = Len(ps[getProjectIndex(ps, projectId)].tasks)]

\* The values of the chart's projectId prop: a cached project or none.
ChartViews(ps) == {NoId} \cup CachedProjectIds(ps)

\* TaskEditModal.handleSubmit and TaskProvider.handleTaskUpdate up to the
\* await: the form's dates and project replace the selected task's.
handleSubmit(S, startDate, endDate, projectId) ==
    LET updatedTask == Merge(S.selectedTask[1],
                             [startDate |-> startDate, endDate |-> endDate,
                              projectId |-> projectId])
    IN  IF updatedTask.id # NoId
        THEN updateTaskSync(S, updatedTask, FALSE)
        ELSE addTaskSync(S, [projectId |-> updatedTask.projectId,
                             startDate |-> updatedTask.startDate,
                             endDate |-> updatedTask.endDate,
                             order |-> updatedTask.order])

\* TaskProvider.handleTaskUpdate / handleTaskDelete after the await: a truthy
\* result closes the form.
handleTaskResult(S, c, out) ==
    IF c.op \in {"addTask", "updateTask", "deleteTask"} /\ out = "ok"
    THEN [S EXCEPT !.selectedTask = <<>>]
    ELSE S


\* ------------------------------------------------------ initial state
\* Two projects; the first has a task inside January and one across the end of
\* the month.  The page has fetched the project list on mount.
SeedProjects == (1 :> [order |-> 0, name |-> "a"]) @@ (2 :> [order |-> 1, name |-> "a"])

SeedTasks ==
    (1 :> [projectId |-> 1, startDate |-> <<2024, 1, 10>>, endDate |-> <<2024, 1, 12>>,
           order |-> 0])
    @@ (2 :> [projectId |-> 1, startDate |-> <<2024, 1, 31>>, endDate |-> <<2024, 2, 1>>,
              order |-> 1])

PageLoaded ==
    /\ sProjects = SeedProjects
    /\ sTasks = SeedTasks
    /\ sNextId = [project |-> 3, task |-> 3]
    /\ projects = SortDescByOrder([i \in 1..Len(SrvProjectList) |->
                                      NewProject(SrvProjectList[i], 0)])
    /\ isLoading = FALSE
    /\ error = NoError
    /\ selectedProjectId = NoId
    /\ selectedTask = <<>>
    /\ calls = <<>>
    /\ returned = NoReturn
    /\ settled = NoSettle
    /\ failed = FALSE
    /\ nextRef = 1
    /\ nops = 0
    /\ draggingTaskId = NoId
    /\ dragPreviewOffset = 0
    /\ resizingTaskId = NoId
    /\ resizeEdge = NoEdge
    /\ resizePreviewOffset = 0
    /\ hasMovement = {}
    /\ movementTimers = {}
    /\ daysMoved = {}
    /\ npresses = 0
    /\ listeners = {}

\* No date or pixel function is under evaluation.
NoCall == [fn |-> "none"]
NoResult == <<>>

Init == PageLoaded /\ argument = NoCall /\ result = NoResult

\* ------------------------------------------------------------ actions
\* The task list of the chart's last render.
ChartTasks == getAllTasks(projects)

ChartTaskIds == LET tasks == ChartTasks IN {tasks[i].id : i \in 1..Len(tasks)}

Offsets == (0 - MaxOffset)..MaxOffset

\* The chart's dayWidth state at its initial zoom.
dayWidth == 60

\* Math.trunc(n / w) for w > 0, in place of Math.round.
MathTrunc(n, w) == IF n < 0 THEN 0 - ((0 - n) \div w) ELSE n \div w

\* Math.round(n / w) for w > 0: halves round towards +Infinity.
MathRound(n, w) == (2 * n + w) \div (2 * w)

\* The pointer displacements of a mousemove, in pixels: every half day
\* column up to MaxOffset days either way.
Pixels == {k * (dayWidth \div 2) : k \in (0 - 2 * MaxOffset)..(2 * MaxOffset)}

\* A step in which no operation returns and no fetch settles.
Quiet == returned' = NoReturn /\ settled' = NoSettle

\* An operation started by the user: S is the state its synchronous part
\* leaves, max the budget of the specification.
Start(S, max) ==
    /\ nops < max
    /\ Len(S.calls) <= MaxInFlight
    /\ Commit([S EXCEPT !.calls[Len(S.calls)].before = projects])
    /\ settled' = NoSettle
    /\ nops' = nops + 1
    /\ UNCHANGED <<fnVars, failed, serverVars, chartVars>>

\* An operation that may return before it sends anything.
StartIfSent(S, max) ==
    IF Len(S.calls) > Len(calls) THEN Start(S, max)
    ELSE /\ Commit(S)
         /\ settled' = NoSettle
         /\ UNCHANGED <<fnVars, failed, nops, serverVars, chartVars>>

\* ---- the store's operations, called with the arguments its callers pass
FetchProjects == Start(fetchProjectsSync(Cur), MaxOps)

FetchProjectDetails ==
    \E pid \in CachedProjectIds(projects) : Start(fetchProjectDetailsSync(Cur, pid), MaxOps)

AddProject == \E name \in ProjectNames : Start(addProjectSync(Cur, [name |-> name]), MaxOps)

UpdateProject ==
    \E pid \in CachedProjectIds(projects), name \in ProjectNames :
        Start(updateProjectSync(Cur, [id |-> pid, name |-> name]), MaxOps)

DeleteProject ==
    \E pid \in CachedProjectIds(projects) : Start(deleteProjectSync(Cur, pid), MaxOps)

ReorderProjects ==
    /\ Len(projects) >= 2
    /\ \E ids \in Perms(CachedProjectIds(projects)) :
           Start(reorderProjectsSync(Cur, ids), MaxOps)

\* addTask with the draft of the Add Task button.
AddTask ==
    /\ projects # <<>>
    /\ \E today \in FormDates, view \in ChartViews(projects) :
           LET draft == handleAddTask(projects, view, today)
           IN  Start(addTaskSync(Cur, [projectId |-> draft.projectId,
                                       startDate |-> draft.startDate,
                                       endDate |-> draft.endDate,
                                       order |-> draft.order]), MaxOps)

\* updateTask with new dates for a cached task: as the edit form calls it
\* (normal mode) or as a drag / resize commit calls it (silent mode).
UpdateTask ==
    \E id \in ChartTaskIds, dates \in UpdateDates, silentUpdate \in BOOLEAN :
        Start(updateTaskSync(Cur, [id |-> id, startDate |-> dates[1],
                                   endDate |-> dates[2]], silentUpdate), MaxOps)

\* updateTask as the edit form calls it when another project is selected for
\* a cached task (normal mode).
MoveTask ==
    \E id \in ChartTaskIds, pid \in CachedProjectIds(projects) :
        /\ getTaskById(projects, id)[1].projectId # pid
        /\ Start(updateTaskSync(Cur, [id |-> id, projectId |-> pid], FALSE), MaxOps)

DeleteTask == \E id \in ChartTaskIds : Start(deleteTaskSync(Cur, id), MaxOps)

\* reorderTasks as the chart's handleDragEnd calls it: a row of the sorting
\* mode is dropped at another index of its project.
HandleDragEnd ==
    \E pid \in CachedProjectIds(projects) :
        LET Of(t) == t.projectId = pid
            n == Len(SelectSeq(ChartTasks, Of))
        IN  \E src, dst \in 0..(n - 1) :
                /\ src # dst
                /\ Start(reorderTasksSync(Cur, pid, DropTaskIds(ChartTasks, pid, src, dst)),
                         MaxOps)

\* The id lists reorderTasks and reorderProjects may be handed: the ids of a
\* render in any sequence, of entities that may have left the cache since
\* (ids is the set of ids handed out so far).
IdLists(ids) == UNION {Perms(T) : T \in SUBSET ids \ {{}}}

\* reorderTasks with an id list of an earlier render.
ReorderTasksOfIds ==
    \E pid \in CachedProjectIds(projects), taskIds \in IdLists(1..(sNextId.task - 1)) :
        Start(reorderTasksSync(Cur, pid, taskIds), MaxOps)

\* reorderProjects with an id list of an earlier render.
ReorderProjectsOfIds ==
    \E projectIds \in IdLists(1..(sNextId.project - 1)) :
        Start(reorderProjectsSync(Cur, projectIds), MaxOps)

\* ---- the chart's gestures and the edit form

\* handleTaskDragStart: the chart's part of a mousedown on a bar body.
handleTaskDragStart(taskId) ==
    /\ draggingTaskId' = taskId
    /\ dragPreviewOffset' = 0
    /\ Quiet
    /\ UNCHANGED <<fnVars, storeVars, calls, failed, nextRef, nops, serverVars,
                   resizingTaskId, resizeEdge, resizePreviewOffset>>

\* handleTaskResizeStart: the chart's part of a mousedown on an edge handle.
handleTaskResizeStart(taskId, edge) ==
    /\ resizingTaskId' = taskId
    /\ resizeEdge' = edge
    /\ resizePreviewOffset' = 0
    /\ Quiet
    /\ UNCHANGED <<fnVars, storeVars, calls, failed, nextRef, nops, serverVars,
                   draggingTaskId, dragPreviewOffset>>

\* The rendered bars with isDragging and with isResizing.
DragBar == draggingTaskId \in ChartTaskIds
ResizeBar == resizingTaskId \in ChartTaskIds

\* The bars with isDragging || isResizing: those whose effect registers the
\* mousemove and mouseup listeners.
ListeningBars ==
    (IF DragBar THEN {draggingTaskId} ELSE {})
        \cup (IF ResizeBar THEN {resizingTaskId} ELSE {})

\* The listener effect without its cleanup: what was registered stays.
useEffectNoCleanup(registered, active) == registered \cup active

\* The listener effect of the bars after a render: the cleanup of the last
\* run removes what it registered, then the bars in active register.
useEffectListeners(registered, active) == active

\* The effects that follow the render of a step.
RunEffects == listeners' = useEffectListeners(listeners, ListeningBars')

\* setHasMovement(false) of the bar of taskId at its mousedown.
ResetMovement(taskId) ==
    /\ npresses < MaxPresses
    /\ npresses' = npresses + 1
    /\ hasMovement' = hasMovement \ {taskId}
    /\ daysMoved' = daysMoved \ {taskId}
    /\ UNCHANGED movementTimers

\* TaskBar.handleDragStart -> handleTaskDragStart
MouseDownBar ==
    \E id \in ChartTaskIds :
        /\ (IF resizingTaskId # NoId THEN 2 ELSE 1) <= MaxGestures
        /\ ResetMovement(id)
        /\ handleTaskDragStart(id)
        /\ RunEffects

\* TaskBar.handleResizeStart -> handleTaskResizeStart
MouseDownEdge ==
    \E id \in ChartTaskIds, side \in {"start", "end"} :
        /\ (IF draggingTaskId # NoId THEN 2 ELSE 1) <= MaxGestures
        /\ ResetMovement(id)
        /\ handleTaskResizeStart(id, side)
        /\ RunEffects

\* A mousedown of any button on a bar body, whatever is already held: the
\* handler reads neither the button nor the gesture in progress.
AnyButtonDownBar ==
    \E id \in ChartTaskIds :
        ResetMovement(id) /\ handleTaskDragStart(id) /\ RunEffects

\* A mousedown of any button on an edge handle, whatever is already held.
AnyButtonDownEdge ==
    \E id \in ChartTaskIds, side \in {"start", "end"} :
        ResetMovement(id) /\ handleTaskResizeStart(id, side) /\ RunEffects


\* A mousemove that commits the dragged bar's dates at every move instead of
\* previewing them.
MouseMoveCommits ==
    /\ DragBar
    /\ \E d \in Offsets \ {0} :
        LET S == handleTaskDragEnd(Cur, ChartTasks, draggingTaskId, d)
        IN  /\ nops < MaxChartOps
            /\ Len(S.calls) <= MaxInFlight
            /\ Commit(S)
            /\ dragPreviewOffset' = d
    /\ settled' = NoSettle
    /\ nops' = nops + 1
    /\ UNCHANGED <<fnVars, failed, serverVars, draggingTaskId, resizingTaskId, resizeEdge,
                   resizePreviewOffset, barVars>>

\* TaskBar.handleMouseMove of every listening bar, for a pointer deltaX
\* pixels from where the gesture began: a nonzero deltaX sets hasMovement;
\* a bar that is dragged reports a drag of round(deltaX / dayWidth) days,
\* else a bar that is resized reports a resize.
MouseMove ==
    /\ DragBar \/ ResizeBar
    /\ \E deltaX \in Pixels :
        LET d == MathRound(deltaX, dayWidth) IN
        /\ hasMovement' = IF deltaX # 0 THEN hasMovement \cup ListeningBars
                          ELSE hasMovement
        /\ daysMoved' = IF d # 0 THEN daysMoved \cup ListeningBars ELSE daysMoved
        /\ dragPreviewOffset' = IF DragBar THEN d ELSE dragPreviewOffset
        /\ resizePreviewOffset' =
               IF ResizeBar /\ ~(DragBar /\ draggingTaskId = resizingTaskId)
               THEN d ELSE resizePreviewOffset
    /\ Quiet
    /\ UNCHANGED <<fnVars, storeVars, calls, failed, nextRef, nops, serverVars,
                   draggingTaskId, resizingTaskId, resizeEdge, movementTimers,
                   npresses>>
    /\ RunEffects

\* The store state handleMouseUp leaves: handleTaskDragEnd of the dragged
\* bar, then handleTaskResizeEnd of the resized bar, both created in the
\* render that showed tasks.
MouseUpStore(S, tasks) ==
    LET S1 == IF DragBar
              THEN handleTaskDragEnd(S, tasks, draggingTaskId, dragPreviewOffset)
              ELSE S
    IN  IF ResizeBar
        THEN handleTaskResizeEnd(S1, tasks, resizingTaskId, resizeEdge,
                                 resizePreviewOffset)
        ELSE S1

\* TaskBar.handleClick -> handleTaskClick on the bar of taskId, as rendered
\* with tasks: the selected task it leaves.  The task opens in the edit form
\* unless the bar has movement.
handleClick(selected, tasks, taskId) ==
    IF taskId \in hasMovement
    THEN selected
    ELSE <<TaskVal(FindTask(tasks, taskId)[1])>>

\* Whether the browser delivers the click that follows the mouseup to the
\* bar that was pressed: it does when the pointer is released over the bar,
\* which a pointer less than half a day column away from the press is.
ClickDelivered(taskId) ==
    IF (taskId = draggingTaskId /\ dragPreviewOffset # 0)
       \/ (taskId = resizingTaskId /\ resizePreviewOffset # 0)
    THEN BOOLEAN
    ELSE {TRUE}

\* The end handler of a gesture that leaves its preview offset as it is.
KeepPreviewOffset(ends, offset) == offset

\* setDragPreviewOffset(0) / setResizePreviewOffset(0) at the end of the end
\* handler of the gesture, if that handler runs.
ResetPreviewOffset(ends, offset) == IF ends THEN 0 ELSE offset

\* TaskBar.handleMouseUp of every listening bar, with the resets that end
\* handleTaskDragEnd and handleTaskResizeEnd and the reset timer each bar
\* starts; then the click the browser dispatches after the mouseup.
MouseUp ==
    /\ DragBar \/ ResizeBar
    /\ \E pressed \in ListeningBars : \E over \in ClickDelivered(pressed) :
        LET S1 == MouseUpStore(Cur, ChartTasks)
            S == [S1 EXCEPT !.selectedTask =
                     IF over THEN handleClick(@, ChartTasks, pressed) ELSE @]
            sent == Len(S.calls) - Len(calls)
        IN
        /\ sent > 0 => nops < MaxChartOps
        /\ Len(S.calls) <= MaxInFlight
        /\ Commit(S)
        /\ movementTimers' = movementTimers \cup ListeningBars
        /\ daysMoved' = daysMoved \ ListeningBars
        /\ UNCHANGED <<hasMovement, npresses>>
        /\ settled' = NoSettle
        /\ nops' = IF sent > 0 THEN nops + 1 ELSE nops
        /\ draggingTaskId' = IF DragBar THEN NoId ELSE draggingTaskId
        /\ dragPreviewOffset' = ResetPreviewOffset(DragBar, dragPreviewOffset)
        /\ resizingTaskId' = IF ResizeBar THEN NoId ELSE resizingTaskId
        /\ resizeEdge' = IF ResizeBar THEN NoEdge ELSE resizeEdge
        /\ resizePreviewOffset' = ResetPreviewOffset(ResizeBar, resizePreviewOffset)
        /\ UNCHANGED <<fnVars, failed, serverVars>>
        /\ RunEffects

\* The timer a bar started at its mouseup fires: setHasMovement(false).
MovementTimeout ==
    /\ \E id \in movementTimers :
        /\ hasMovement' = hasMovement \ {id}
        /\ movementTimers' = movementTimers \ {id}
    /\ Quiet
    /\ UNCHANGED <<fnVars, storeVars, calls, failed, nextRef, nops, serverVars,
                   draggingTaskId, dragPreviewOffset, resizingTaskId, resizeEdge,
                   resizePreviewOffset, daysMoved, npresses, listeners>>

\* TaskBar.handleClick -> handleTaskClick
HandleTaskClick ==
    /\ \E i \in 1..Len(ChartTasks) : selectedTask' = <<TaskVal(ChartTasks[i])>>
    /\ Quiet
    /\ UNCHANGED <<fnVars, projects, isLoading, error, selectedProjectId, calls, failed,
                   nextRef, nops, serverVars, chartVars>>

\* The Add Task button.
HandleAddTask ==
    /\ projects # <<>>
    /\ \E today \in FormDates, view \in ChartViews(projects) :
           selectedTask' = <<handleAddTask(projects, view, today)>>
    /\ Quiet
    /\ UNCHANGED <<fnVars, projects, isLoading, error, selectedProjectId, calls, failed,
                   nextRef, nops, serverVars, chartVars>>

\* Save Changes in the edit form.
FormSubmit ==
    /\ selectedTask # <<>>
    /\ \E startDate, endDate \in FormDates, pid \in CachedProjectIds(projects) :
           StartIfSent(handleSubmit(Cur, startDate, endDate, pid), MaxChartOps)

\* Delete in the edit form.
FormDelete ==
    /\ selectedTask # <<>>
    /\ selectedTask[1].id # NoId
    /\ StartIfSent(deleteTaskSync(Cur, selectedTask[1].id), MaxChartOps)

\* ---- the server and the network
\* The server runs the route handler of a request in flight.
ServerHandle ==
    \E i \in 1..Len(calls) :
        /\ calls[i].phase = "req"
        /\ LET a == SrvHandle(calls[i]) IN
            /\ sProjects' = a.sProjects
            /\ sTasks' = a.sTasks
            /\ sNextId' = a.sNextId
            /\ calls' = [calls EXCEPT ![i] = [@ EXCEPT !.phase = "resp", !.ok = a.ok,
                                                      !.data = a.data]]
        /\ Quiet
        /\ UNCHANGED <<fnVars, storeVars, failed, nextRef, nops, chartVars>>

\* The server answers a request with an error status (the handler's catch).
ServerReject ==
    \E i \in 1..Len(calls) :
        /\ calls[i].phase = "req"
        /\ calls' = [calls EXCEPT ![i] = [@ EXCEPT !.phase = "resp", !.ok = FALSE]]
        /\ Quiet
        /\ UNCHANGED <<fnVars, storeVars, failed, nextRef, nops, serverVars, chartVars>>

\* The client leaves call i, whose fetch has settled with out.
Settle(i, out) ==
    LET c == calls[i]
        S == [Cur EXCEPT !.calls = RemoveAt(calls, i)]
    IN  /\ Commit(handleTaskResult(Resume(S, c, out), c, out))
        /\ settled' = [call |-> c, out |-> out]
        /\ failed' = (failed \/ out # "ok")
        /\ UNCHANGED <<fnVars, nops, serverVars, chartVars>>

\* A response arrives and the operation continues after its await.
Respond ==
    \E i \in 1..Len(calls) :
        /\ calls[i].phase = "resp"
        /\ Settle(i, IF calls[i].ok THEN "ok" ELSE "status")

\* The fetch of a call rejects: the request or its response is lost.
NetworkError == \E i \in 1..Len(calls) : Settle(i, "throw")

\* ---- the date and pixel functions, each applied to arguments of its own
\* normalizeToUTCDate of lib/utils.  A string is <<"string", <<y, m, d>>, time>>,
\* time being "" for "YYYY-MM-DD" and the rest of the string otherwise; a Date
\* is <<"Date", t>>.  The result is a Date.
normalizeToUTCDate(date, tz) ==
    IF date[1] = "Date"
    THEN <<"Date", UTCMidnight(LocalTime(date[2], tz) \div 24)>>
    ELSE <<"Date", UTCMidnight(ParseDate(date[2]))>>

\* startOffset of a task bar, in day columns, as the chart computes it for
\* the range timeRange.
startOffset(task, timeRange, tz) ==
    LET startDate == UTCMidnight(ParseDate(task.startDate))
        timeRangeStartUTC == UTCMidnight(ParseDate(ISODate(UTCDay(timeRange[1]))))
    IN  differenceInDays(startDate, timeRangeStartUTC, tz)

\* duration of a task bar, in day columns.
duration(task, tz) ==
    differenceInDays(UTCMidnight(ParseDate(task.endDate)),
                     UTCMidnight(ParseDate(task.startDate)), tz) + 1

\* The dates of the tasks the calculator is applied to: the days of the
\* example, and days either side of the two changes of the clock of 2024.
RangeDates ==
    {<<2024, 1, 10>>, <<2024, 1, 20>>, <<2024, 3, 29>>, <<2024, 4, 2>>,
     <<2024, 10, 25>>, <<2024, 10, 30>>}

RangeTasks ==
    {[startDate |-> a, endDate |-> b] :
        <<a, b>> \in {d \in RangeDates \X RangeDates :
                          /\ ParseDate(d[1]) <= ParseDate(d[2])
                          /\ ParseDate(d[2]) - ParseDate(d[1]) <= MaxSpan}}

\* The task collections: none, one task, two tasks no more than MaxSpan days
\* apart.
TaskLists ==
    {<<>>} \cup {<<t>> : t \in RangeTasks}
    \cup {<<t, u>> : <<t, u>> \in
              {p \in RangeTasks \X RangeTasks :
                  /\ ParseDate(p[1].endDate) - ParseDate(p[2].startDate) <= MaxSpan
                  /\ ParseDate(p[2].endDate) - ParseDate(p[1].startDate) <= MaxSpan}}

\* The values of new Date() when the calculator runs.
Clock ==
    {UTCMidnight(DateUTC(2024, 1, 31)) + 23, UTCMidnight(DateUTC(2024, 2, 29)) + 12,
     UTCMidnight(DateUTC(2024, 10, 15)), UTCMidnight(DateUTC(2024, 12, 1))}

\* The values of the chart's dayWidth: 60 at first, then moved in steps of 10
\* between 30 and 120 by the zoom buttons.
DayWidths == {30 + 10 * k : k \in 0..9}

\* The pointer displacements of a mousemove, in pixels.
MaxPixels == 130
PixelDeltas == (0 - MaxPixels)..MaxPixels

\* The inputs of normalizeToUTCDate: a "YYYY-MM-DD" string, an ISO string
\* with a time, a Date.
NormalizeInputs ==
    {<<"string", d, "">> : d \in RangeDates}
    \cup {<<"string", d, "T00:00:00.000Z">> : d \in RangeDates}
    \cup {<<"Date", UTCMidnight(ParseDate(d)) + h>> : d \in RangeDates, h \in {0, 12, 23}}

FunctionCalls ==
    {[fn |-> "calculateTimeRange", taskList |-> l, today |-> now, tz |-> tz] :
        l \in TaskLists, now \in Clock, tz \in TimeZones}
    \cup {[fn |-> "normalizeToUTCDate", date |-> x, tz |-> tz] :
             x \in NormalizeInputs, tz \in TimeZones}
    \cup {[fn |-> "handleMouseMove", deltaX |-> x, dayWidth |-> w] :
             x \in PixelDeltas, w \in DayWidths}

InitFunctions == PageLoaded /\ argument \in FunctionCalls /\ result = NoResult

\* The effect of the chart that runs calculateTimeRange(tasks).
CalculateTimeRange ==
    /\ argument.fn = "calculateTimeRange"
    /\ result = NoResult
    /\ result' = <<calculateTimeRange(argument.taskList, argument.today, argument.tz)>>
    /\ UNCHANGED <<argument, storeVars, calls, obsVars, nextRef, nops, serverVars,
                   chartVars>>

NormalizeToUTCDate ==
    /\ argument.fn = "normalizeToUTCDate"
    /\ result = NoResult
    /\ result' = <<normalizeToUTCDate(argument.date, argument.tz)>>
    /\ UNCHANGED <<argument, storeVars, calls, obsVars, nextRef, nops, serverVars,
                   chartVars>>

\* normalizeToUTCDate applied to what it returned.
NormalizeAgain ==
    /\ argument.fn = "normalizeToUTCDate"
    /\ Len(result) = 1
    /\ result' = Append(result, normalizeToUTCDate(result[1], argument.tz))
    /\ UNCHANGED <<argument, storeVars, calls, obsVars, nextRef, nops, serverVars,
                   chartVars>>

\* The daysOffset handleMouseMove passes to onDrag or onResize.
HandleMouseMove ==
    /\ argument.fn = "handleMouseMove"
    /\ result = NoResult
    /\ result' = <<MathRound(argument.deltaX, argument.dayWidth)>>
    /\ UNCHANGED <<argument, storeVars, calls, obsVars, nextRef, nops, serverVars,
                   chartVars>>

\* The next mousemove of the same gesture, with the pointer as far on the
\* other side of where the gesture started.
HandleMouseMoveBack ==
    /\ argument.fn = "handleMouseMove"
    /\ Len(result) = 1
    /\ result' = Append(result, MathRound(0 - argument.deltaX, argument.dayWidth))
    /\ UNCHANGED <<argument, storeVars, calls, obsVars, nextRef, nops, serverVars,
                   chartVars>>

\* ---- handleTaskResizeEnd applied to tasks of its own
\* The dates of the tasks resized: inside a month and across its end.
EdgeDates ==
    {<<2024, 1, 10>>, <<2024, 1, 11>>, <<2024, 1, 12>>, <<2024, 1, 31>>, <<2024, 2, 1>>}

\* Tasks with startDate <= endDate, the one-day tasks (startDate = endDate)
\* included: the edit form saves them.
ResizeTasks ==
    {[id |-> 1, startDate |-> d[1], endDate |-> d[2]] :
        d \in {x \in EdgeDates \X EdgeDates : ParseDate(x[1]) <= ParseDate(x[2])}}

ResizeCalls ==
    {[fn |-> "handleTaskResizeEnd", task |-> t, edge |-> e, offset |-> d] :
        t \in ResizeTasks, e \in {"start", "end"}, d \in Offsets \ {0}}

InitResize == PageLoaded /\ argument \in ResizeCalls /\ result = NoResult

\* The update handleTaskResizeEnd passes to updateTask at pointer-up.
HandleTaskResizeEnd ==
    /\ argument.fn = "handleTaskResizeEnd"
    /\ result = NoResult
    /\ result' = <<ResizeDates(argument.task, argument.edge, argument.offset)>>
    /\ UNCHANGED <<argument, storeVars, calls, obsVars, nextRef, nops, serverVars,
                   chartVars>>

\* ---- the bar of a task during a gesture and after its commit
\* The startOffset prop the chart passes to the task's bar: the preview
\* offsets of the gesture in progress on that task are added.  chart is the
\* chart's state at the render.
TaskBarStartOffset(task, chart, timeRange, tz) ==
    LET previewDragOffset ==
            IF chart.draggingTaskId = task.id THEN chart.dragPreviewOffset ELSE 0
        previewResizeStartOffset ==
            IF chart.resizingTaskId = task.id /\ chart.resizeEdge = "start"
            THEN chart.resizePreviewOffset ELSE 0
    IN  startOffset(task, timeRange, tz) + previewDragOffset + previewResizeStartOffset

\* The duration prop the chart passes to the task's bar.
TaskBarDuration(task, chart, tz) ==
    LET previewResizeStartOffset ==
            IF chart.resizingTaskId = task.id /\ chart.resizeEdge = "start"
            THEN chart.resizePreviewOffset ELSE 0
        previewResizeEndOffset ==
            IF chart.resizingTaskId = task.id /\ chart.resizeEdge = "end"
            THEN chart.resizePreviewOffset ELSE 0
    IN  duration(task, tz) - previewResizeStartOffset + previewResizeEndOffset

\* The chart at rest.
IdleChart ==
    [draggingTaskId |-> NoId, dragPreviewOffset |-> 0, resizingTaskId |-> NoId,
     resizeEdge |-> NoEdge, resizePreviewOffset |-> 0]

\* The chart with task 1 dragged or one of its edges moved by a preview
\* offset.
GestureCharts ==
    {[IdleChart EXCEPT !.draggingTaskId = 1, !.dragPreviewOffset = d] : d \in Offsets}
    \cup {[IdleChart EXCEPT !.resizingTaskId = 1, !.resizeEdge = e,
                            !.resizePreviewOffset = d] :
              e \in {"start", "end"}, d \in Offsets}

\* The task as the end handler of the gesture leaves it in the cache.
CommittedTask(task, chart) ==
    IF chart.draggingTaskId # NoId /\ chart.dragPreviewOffset # 0
    THEN DragDates(task, chart.dragPreviewOffset)
    ELSE IF chart.resizingTaskId # NoId /\ chart.resizePreviewOffset # 0
    THEN ResizeDates(task, chart.resizeEdge, chart.resizePreviewOffset)
    ELSE task

PreviewCalls ==
    {[fn |-> "TaskBar", task |-> t, chart |-> c, tz |-> tz] :
        t \in ResizeTasks, c \in GestureCharts, tz \in TimeZones}

InitPreview == PageLoaded /\ argument \in PreviewCalls /\ result = NoResult

\* A render of the bar of the task: during the gesture, and again after
\* pointer-up, with the task as committed, the chart at rest and the time
\* range of the render before.  result receives the bar's props.
RenderTaskBar ==
    /\ argument.fn = "TaskBar"
    /\ Len(result) \in {0, 2}
    /\ \E r \in {IF result = NoResult
                  THEN [task |-> argument.task, chart |-> argument.chart]
                  ELSE [task |-> result[2], chart |-> IdleChart]},
          timeRange \in {calculateTimeRange(<<argument.task>>, 0, argument.tz)} :
           result' = Append(result,
                            [startOffset |-> TaskBarStartOffset(r.task, r.chart, timeRange,
                                                                argument.tz),
                             duration |-> TaskBarDuration(r.task, r.chart, argument.tz)])
    /\ UNCHANGED <<argument, storeVars, calls, obsVars, nextRef, nops, serverVars,
                   chartVars>>

\* Pointer-up: the end handler of the gesture commits.  result receives the
\* task as committed.
PointerUp ==
    /\ argument.fn = "TaskBar"
    /\ Len(result) = 1
    /\ result' = Append(result, CommittedTask(argument.task, argument.chart))
    /\ UNCHANGED <<argument, storeVars, calls, obsVars, nextRef, nops, serverVars,
                   chartVars>>

\* ---- specifications
\* The store protocol: every operation of the store against the server.
Next ==
    \/ FetchProjects
    \/ FetchProjectDetails
    \/ AddProject
    \/ UpdateProject
    \/ DeleteProject
    \/ ReorderProjects
    \/ AddTask
    \/ UpdateTask
    \/ DeleteTask
    \/ HandleDragEnd
    \/ ServerHandle
    \/ ServerReject
    \/ Respond
    \/ NetworkError

Spec == Init /\ [][Next]_vars

\* The store protocol with write operations only: the user starts no fetch
\* (the store still re-fetches by itself).
NextMutations ==
    \/ AddProject
    \/ UpdateProject
    \/ DeleteProject
    \/ ReorderProjects
    \/ AddTask
    \/ UpdateTask
    \/ DeleteTask
    \/ HandleDragEnd
    \/ ServerHandle
    \/ ServerReject
    \/ Respond
    \/ NetworkError

SpecMutations == Init /\ [][NextMutations]_vars

\* The store protocol with tasks moved between projects.
NextMoves == Next \/ MoveTask

SpecMoves == Init /\ [][NextMoves]_vars

\* Reordering with any id list, while tasks and projects are deleted.
NextReorder ==
    \/ ReorderTasksOfIds
    \/ ReorderProjectsOfIds
    \/ DeleteTask
    \/ DeleteProject
    \/ ServerHandle
    \/ ServerReject
    \/ Respond
    \/ NetworkError

SpecReorder == Init /\ [][NextReorder]_vars

\* The chart's gestures, against the same store and server.
NextChart ==
    \/ MouseDownBar
    \/ MouseDownEdge
    \/ MouseMove
    \/ MouseUp
    \/ MovementTimeout
    \/ ServerHandle
    \/ ServerReject
    \/ Respond
    \/ NetworkError

SpecChart == Init /\ [][NextChart]_vars

\* The chart's gestures with every mouse button, up to the requests a
\* mouseup sends.
NextButtons ==
    \/ AnyButtonDownBar
    \/ AnyButtonDownEdge
    \/ MouseMove
    \/ MouseUp
    \/ MovementTimeout

SpecButtons == Init /\ [][NextButtons]_vars

\* The edit form, against the same store and server.
NextForm ==
    \/ HandleTaskClick
    \/ HandleAddTask
    \/ FormSubmit
    \/ FormDelete
    \/ ServerHandle
    \/ ServerReject
    \/ Respond
    \/ NetworkError

SpecForm == Init /\ [][NextForm]_vars

\* The date and pixel functions on their own.
NextFunctions ==
    \/ CalculateTimeRange
    \/ NormalizeToUTCDate
    \/ NormalizeAgain
    \/ HandleMouseMove
    \/ HandleMouseMoveBack

SpecFunctions == InitFunctions /\ [][NextFunctions]_vars

\* The resize commit on its own.
NextResize == HandleTaskResizeEnd

SpecResize == InitResize /\ [][NextResize]_vars

\* The bar of a gesture, before and after pointer-up.
NextPreview == RenderTaskBar \/ PointerUp

SpecPreview == InitPreview /\ [][NextPreview]_vars

\* ------------------------------------------------------------- claims
FailureOuts == {"status", "throw"}

\* The cached task has the field values of the server's row.
TaskMatchesServer(t) == t.id \in DOMAIN sTasks /\ TaskVal(t) = SrvTask(t.id)

\* The cached project has the field values of the server's row, and so has
\* every task in it.
ProjectMatchesServer(p) ==
    /\ p.id \in DOMAIN sProjects
    /\ p.order = sProjects[p.id].order
    /\ p.name = sProjects[p.id].name
    /\ \A i \in 1..Len(p.tasks) : TaskMatchesServer(p.tasks[i])

ProjectVals(ps) == [i \in 1..Len(ps) |-> ProjectVal(ps[i])]

\* The field values the cache holds for the task id.
TaskValsOf(ps, id) ==
    {TaskVal(CachedTasks(ps)[i]) : i \in {k \in 1..Len(CachedTasks(ps)) :
                                              CachedTasks(ps)[k].id = id}}

RefetchInFlight ==
    \E i \in 1..Len(calls) : calls[i].op \in {"fetchProjects", "fetchProjectDetails"}

\* C1: once every request has been answered and none has failed, every task
\* of the cache has startDate <= endDate (the edit form's saves included).
C1_DatesOrdered ==
    (calls = <<>> /\ ~failed) =>
        \A i \in 1..Len(CachedTasks(projects)) :
            ParseDate(CachedTasks(projects)[i].startDate)
                <= ParseDate(CachedTasks(projects)[i].endDate)

\* C2: when a bar is dragged by d # 0 days, the commit handleTaskDragEnd makes
\* at pointer-up leaves the task in the cache with startDate + d and
\* endDate + d, and sends a PUT whose body has these two dates; the
\* duration is unchanged.
C2_DragCommit ==
    (DragBar /\ dragPreviewOffset # 0) =>
        LET T == FindTask(ChartTasks, draggingTaskId)[1]
            d == dragPreviewOffset
            S == handleTaskDragEnd(Cur, ChartTasks, draggingTaskId, d)
            start == ISODate(ParseDate(T.startDate) + d)
            end == ISODate(ParseDate(T.endDate) + d)
            put == S.calls[Len(S.calls)]
        IN  /\ TaskValsOf(S.projects, T.id) =
                   {[TaskVal(T) EXCEPT !.startDate = start, !.endDate = end]}
            /\ Len(S.calls) = Len(calls) + 1
            /\ put.op = "updateTaskSilent"
            /\ put.arg.body.id = T.id
            /\ put.arg.body.startDate = start
            /\ put.arg.body.endDate = end
            /\ ParseDate(end) - ParseDate(start)
                   = ParseDate(T.endDate) - ParseDate(T.startDate)

\* C2: task 1 (2024-01-10 .. 2024-01-12) has been dragged by +2 days: the
\* gesture is over, the cache holds 2024-01-12 .. 2024-01-14 and the PUT
\* with these dates is in flight.
C2_Dragged ==
    /\ draggingTaskId = NoId
    /\ nops = 1
    /\ TaskValsOf(projects, 1) =
           {[id |-> 1, projectId |-> 1, startDate |-> <<2024, 1, 12>>,
             endDate |-> <<2024, 1, 14>>, order |-> 0]}
    /\ \E i \in 1..Len(calls) :
           /\ calls[i].op = "updateTaskSilent"
           /\ calls[i].arg.body.id = 1
           /\ calls[i].arg.body.startDate = <<2024, 1, 12>>
           /\ calls[i].arg.body.endDate = <<2024, 1, 14>>

\* C3: when an edge is moved by d # 0 days, the commit handleTaskResizeEnd
\* makes at pointer-up leaves in the cache and in the PUT body: for the
\* start edge startDate + d, but endDate - 1 day if startDate + d >= endDate;
\* for the end edge endDate + d, but startDate + 1 day if
\* endDate + d <= startDate.
C3_ResizeCommit ==
    (ResizeBar /\ resizePreviewOffset # 0) =>
        LET T == FindTask(ChartTasks, resizingTaskId)[1]
            d == resizePreviewOffset
            S == handleTaskResizeEnd(Cur, ChartTasks, resizingTaskId, resizeEdge, d)
            s == ParseDate(T.startDate)
            e == ParseDate(T.endDate)
            start == ISODate(IF s + d >= e THEN e - 1 ELSE s + d)
            end == ISODate(IF e + d <= s THEN s + 1 ELSE e + d)
            put == S.calls[Len(S.calls)]
        IN  /\ Len(S.calls) = Len(calls) + 1
            /\ put.op = "updateTaskSilent"
            /\ put.arg.body.id = T.id
            /\ IF resizeEdge = "start"
               THEN /\ put.arg.body.startDate = start
                    /\ \A t \in TaskValsOf(S.projects, T.id) : t.startDate = start
               ELSE /\ put.arg.body.endDate = end
                    /\ \A t \in TaskValsOf(S.projects, T.id) : t.endDate = end

\* C3: an edge of task 2 (2024-01-31 .. 2024-02-01) has been moved onto or
\* past the other edge: the gesture is over and the PUT in flight carries
\* the clamped dates, one day apart, which are the dates the task had.
C3_ResizedClamped ==
    /\ resizingTaskId = NoId
    /\ nops = 1
    /\ TaskValsOf(projects, 2) =
           {[id |-> 2, projectId |-> 1, startDate |-> <<2024, 1, 31>>,
             endDate |-> <<2024, 2, 1>>, order |-> 1]}
    /\ \E i \in 1..Len(calls) :
           /\ calls[i].op = "updateTaskSilent"
           /\ calls[i].phase = "req"
           /\ calls[i].arg.body.id = 2
           /\ calls[i].arg.body.startDate = <<2024, 1, 31>>
           /\ calls[i].arg.body.endDate = <<2024, 2, 1>>

\* C4: in the state that follows the rejection (non-2xx status or network
\* error) of an updateTask PUT, normal or silent, either a re-fetch is under
\* way or the cached task already equals the server's copy.
C4_RejectedUpdateRolledBack ==
    (settled.call.op \in {"updateTask", "updateTaskSilent"} /\ settled.out \in FailureOuts) =>
        \/ RefetchInFlight
        \/ \A i \in 1..Len(CachedTasks(projects)) :
               CachedTasks(projects)[i].id = settled.call.arg.body.id
                   => TaskMatchesServer(CachedTasks(projects)[i])

\* C5: the response of an older request (an updateTask of the same task, a
\* fetchProjects or a fetchProjectDetails) that arrives while a newer
\* updateTask of a task is still in flight leaves that task's cached fields
\* as they are.
C5_NoStaleOverwrite ==
    [][\A i, j \in 1..Len(calls) :
          ( /\ i < j
            /\ calls[j].op \in {"updateTask", "updateTaskSilent"}
            /\ \/ calls[i].op \in {"fetchProjects", "fetchProjectDetails"}
               \/ /\ calls[i].op = "updateTask"
                  /\ calls[i].arg.body.id = calls[j].arg.body.id
            /\ settled' = [call |-> calls[i], out |-> "ok"]
            /\ calls' = RemoveAt(calls, i) )
          => TaskValsOf(projects', calls[j].arg.body.id)
                 = TaskValsOf(projects, calls[j].arg.body.id)]_vars

\* C6: once every request has been answered and none has failed, every
\* project and task of the cache has the field values the server holds.
C6_EventuallyConsistent ==
    (calls = <<>> /\ ~failed) =>
        \A i \in 1..Len(projects) : ProjectMatchesServer(projects[i])

\* C7: in the state that follows the failure (non-2xx status or network
\* error) of the DELETE of deleteProject, the cache holds the projects it held
\* when deleteProject was called, error is set and the result is false.
C7_DeleteProjectRestored ==
    (settled.call.op = "deleteProject" /\ settled.out \in FailureOuts) =>
        /\ ProjectVals(projects) = ProjectVals(settled.call.before)
        /\ error # NoError
        /\ returned.op = "deleteProject"
        /\ ~returned.ok

\* C8: in the state that follows the failure of the PATCH of reorderProjects,
\* the cache holds the projects in the sequence and with the order values
\* they had when reorderProjects was called.
C8_ReorderProjectsReverted ==
    (settled.call.op = "reorderProjects" /\ settled.out \in FailureOuts) =>
        ProjectVals(projects) = ProjectVals(settled.call.before)

\* C9: in the state that follows the failure (non-2xx status or network
\* error) of the PATCH of reorderTasks, either the re-fetch of the project is
\* under way or the project's tasks in the cache already have the server's
\* sequence and order values.
C9_ReorderTasksReverted ==
    (settled.call.op = "reorderTasks" /\ settled.out \in FailureOuts) =>
        LET pid == settled.call.arg.projectId IN
        \/ \E i \in 1..Len(calls) :
               /\ calls[i].op = "fetchProjectDetails"
               /\ calls[i].arg.projectId = pid
        \/ \A i \in 1..Len(projects) :
               projects[i].id = pid =>
                   /\ pid \in DOMAIN sProjects
                   /\ ProjectVal(projects[i]).tasks = SrvProjectDetails(pid).tasks

\* C10: in the state in which a write operation of the store has returned its
\* failure result after a non-2xx response or a thrown network error, error
\* is not null.
C10_ErrorSetOnFailure ==
    ( /\ returned.op \in {"addProject", "updateProject", "deleteProject",
                          "reorderProjects", "addTask", "updateTask", "deleteTask",
                          "reorderTasks"}
      /\ ~returned.ok
      /\ returned.why \in FailureOuts )
    => error # NoError

\* The write operations of the store.
WriteOps ==
    {"addProject", "updateProject", "deleteProject", "reorderProjects", "addTask",
     "updateTask", "updateTaskSilent", "deleteTask", "reorderTasks"}

\* The ids of the tasks the array of projects ps holds.
TaskIdsIn(ps) == {CachedTasks(ps)[i].id : i \in 1..Len(CachedTasks(ps))}

\* The cache ps shows the mutation the write operation c asks the server for.
Reflects(ps, c) ==
    CASE c.op = "addProject" ->
             \E i \in 1..Len(ps) :
                 ps[i].name = c.arg.name /\ ps[i].id \notin CachedProjectIds(c.before)
      [] c.op = "addTask" ->
             \E i \in 1..Len(CachedTasks(ps)) :
                 LET t == CachedTasks(ps)[i]
                 IN  /\ t.id \notin TaskIdsIn(c.before)
                     /\ t.projectId = c.arg.projectId
                     /\ t.startDate = c.arg.startDate
                     /\ t.endDate = c.arg.endDate
      [] c.op = "updateProject" ->
             \A i \in 1..Len(ps) : ps[i].id = c.arg.id => ps[i].name = c.arg.name
      [] c.op \in {"updateTask", "updateTaskSilent"} ->
             TaskValsOf(ps, c.arg.body.id) = {c.arg.body}
      [] c.op = "deleteProject" -> c.arg.projectId \notin CachedProjectIds(ps)
      [] c.op = "deleteTask" -> c.arg.taskId \notin TaskIdsIn(ps)
      [] c.op = "reorderProjects" ->
             \A k \in 1..Len(c.arg.projects) : \A i \in 1..Len(ps) :
                 ps[i].id = c.arg.projects[k].id => ps[i].order = c.arg.projects[k].order
      [] c.op = "reorderTasks" ->
             \A k \in 1..Len(c.arg.tasks) : \A t \in TaskValsOf(ps, c.arg.tasks[k].id) :
                 t.order = c.arg.tasks[k].order

\* C11: a step in which a write operation of the store sends its request
\* leaves the cache showing the operation's mutation, before any answer.
C11_OptimisticBeforeAnswer ==
    [][( /\ Len(calls') = Len(calls) + 1
         /\ calls'[Len(calls')].op \in WriteOps
         /\ calls'[Len(calls')].phase = "req" )
       => Reflects(projects', calls'[Len(calls')])]_vars

\* The ids of a sequence of projects or tasks.
Ids(xs) == [i \in 1..Len(xs) |-> xs[i].id]

\* The tasks the cache ps holds for the project pid (<<>> if it has none).
TasksOfProject(ps, pid) ==
    IF getProjectIndex(ps, pid) = 0 THEN <<>> ELSE ps[getProjectIndex(ps, pid)].tasks

\* Sorting by (order ascending, id ascending): by id first, then stably by
\* order.
SortByOrderThenId(ts) ==
    LET byId == SortBy(ts, Ids(ts)) IN SortBy(byId, Orders(byId))

\* The Task table after the server has applied the PATCH of items.
PatchedTasks(items) == SrvPatchTasks(items).sTasks

\* C12: whenever reorderTasks(p, ids) is called with ids a permutation of the
\* ids of p's cached tasks (each task cached once), the PATCH payload gives ids[i] the order i * 10,
\* the cache holds p's tasks in the sequence ids with these orders, sorting
\* the cached tasks by (order, id) yields ids, and so does sorting the
\* server's rows of p once the PATCH is applied (when the server holds the
\* same tasks for p).
C12_ReorderTasksOrders ==
    \A pid \in CachedProjectIds(projects) :
        LET old == TasksOfProject(projects, pid) IN
        (Len(old) >= 2 /\ Cardinality({old[i].id : i \in 1..Len(old)}) = Len(old)) =>
            \A ids \in Perms({old[i].id : i \in 1..Len(old)}) :
                LET S == reorderTasksSync(Cur, pid, ids)
                    patch == S.calls[Len(S.calls)]
                    new == TasksOfProject(S.projects, pid)
                    rows == PatchedTasks(patch.arg.tasks)
                    srv == [i \in 1..Len(ids) |->
                               [id |-> ids[i], order |-> rows[ids[i]].order]]
                IN  /\ Len(S.calls) = Len(calls) + 1
                    /\ patch.op = "reorderTasks"
                    /\ patch.arg.tasks =
                           [i \in 1..Len(ids) |-> [id |-> ids[i], order |-> (i - 1) * 10]]
                    /\ Ids(new) = ids
                    /\ \A i \in 1..Len(ids) : new[i].order = (i - 1) * 10
                    /\ Ids(SortByOrderThenId(new)) = ids
                    /\ SrvTaskIdsOf(pid) = {ids[i] : i \in 1..Len(ids)}
                           => Ids(SortByOrderThenId(srv)) = ids

\* C12: tasks 1 and 2 of project 1 have been reordered to [2, 1] and the
\* PATCH has been answered: cache and server hold task 2 with order 0 and
\* task 1 with order 10, and the re-fetch of the project lists [2, 1].
C12_Reordered ==
    /\ calls = <<>>
    /\ ~failed
    /\ nops = 1
    /\ Ids(TasksOfProject(projects, 1)) = <<2, 1>>
    /\ Orders(TasksOfProject(projects, 1)) = <<0, 10>>
    /\ Ids(SrvProjectDetails(1).tasks) = <<2, 1>>
    /\ Orders(SrvProjectDetails(1).tasks) = <<0, 10>>

\* The Project table after the server has applied the PATCH of items.
PatchedProjects(items) == SrvPatchProjects(items).sProjects

\* C13: whenever reorderProjects(ids) is called with ids a permutation of the
\* ids of the n cached projects (each cached once), the PATCH payload gives
\* ids[i] the order n - i, the cache holds the projects in the sequence ids
\* with these orders, and sorting by descending order yields ids, for the
\* cache and for the server's rows once the PATCH is applied (when the server
\* holds the same projects).
C13_ReorderProjectsOrders ==
    (Len(projects) >= 2 /\ Cardinality(CachedProjectIds(projects)) = Len(projects)) =>
        \A ids \in Perms(CachedProjectIds(projects)) :
            LET n == Len(ids)
                S == reorderProjectsSync(Cur, ids)
                patch == S.calls[Len(S.calls)]
                rows == PatchedProjects(patch.arg.projects)
                \* the server's rows, listed in the reverse of ids
                srv == [i \in 1..n |-> [id |-> ids[n + 1 - i],
                                        order |-> rows[ids[n + 1 - i]].order]]
            IN  /\ Len(S.calls) = Len(calls) + 1
                /\ patch.op = "reorderProjects"
                /\ patch.arg.projects =
                       [i \in 1..n |-> [id |-> ids[i], order |-> n - (i - 1)]]
                /\ Ids(S.projects) = ids
                /\ \A i \in 1..n : S.projects[i].order = n - (i - 1)
                /\ \A i \in 2..n : S.projects[1].order > S.projects[i].order
                /\ Ids(SortDescByOrder(S.projects)) = ids
                /\ DOMAIN sProjects = CachedProjectIds(projects)
                       => Ids(SortDescByOrder(srv)) = ids

\* C13: the projects have been reordered to [1, 2] and the PATCH has been
\* answered: cache and server hold project 1 with order 2 and project 2 with
\* order 1, and GET /api/projects lists [1, 2].
C13_Reordered ==
    /\ calls = <<>>
    /\ ~failed
    /\ nops = 1
    /\ Ids(projects) = <<1, 2>>
    /\ Orders(projects) = <<2, 1>>
    /\ Ids(SrvProjectList) = <<1, 2>>
    /\ Orders(SrvProjectList) = <<2, 1>>

\* getTasksByProjectId: the project's tasks, sorted by order.
getTasksByProjectId(ps, projectId) ==
    SortBy(TasksOfProject(ps, projectId), Orders(TasksOfProject(ps, projectId)))

\* The chart's tasksByProject[projectId] in the All Projects view: the tasks
\* of the list with that projectId, in list order, then sorted by order.
tasksByProject(tasks, projectId) ==
    LET Of(t) == t.projectId = projectId
        group == SelectSeq(tasks, Of)
    IN  SortBy(group, Orders(group))

\* ts is in ascending order of the order field, tasks of equal order in
\* ascending id order.
AscendingOrderThenId(ts) ==
    \A a, b \in 1..Len(ts) :
        a < b => \/ ts[a].order < ts[b].order
                 \/ ts[a].order = ts[b].order /\ ts[a].id <= ts[b].id

\* C14: for every cached project, getTasksByProjectId, the project's part of
\* getAllTasks and the chart's tasksByProject list the project's tasks in
\* ascending order of the order field, tasks of equal order in ascending id
\* order.
C14_TasksSortedByOrderThenId ==
    \A pid \in CachedProjectIds(projects) :
        LET Of(t) == t.projectId = pid IN
        /\ AscendingOrderThenId(getTasksByProjectId(projects, pid))
        /\ AscendingOrderThenId(SelectSeq(getAllTasks(projects), Of))
        /\ AscendingOrderThenId(tasksByProject(getAllTasks(projects), pid))



\* C15: when the addTask of a draft made by the Add Task button (default
\* order) is answered with the created task, that task is the last of the
\* displayed sequence of its project, in the single-project view
\* (getTasksByProjectId) and in the All Projects view (the chart's grouping
\* of getAllTasks).
AddTaskAnswered == settled.call.op = "addTask" /\ settled.out = "ok"

LastId(ts) == IF ts = <<>> THEN NoId ELSE ts[Len(ts)].id

C15_NewTaskDisplayedLast ==
    AddTaskAnswered =>
        LET newTask == settled.call.data IN
        /\ LastId(getTasksByProjectId(projects, newTask.projectId)) = newTask.id
        /\ LastId(tasksByProject(getAllTasks(projects), newTask.projectId)) = newTask.id


\* C16: within each cached project, two different tasks never have the same
\* order value.
C16_DistinctOrders ==
    \A pid \in CachedProjectIds(projects) :
        LET ts == TasksOfProject(projects, pid) IN
        \A a, b \in 1..Len(ts) : ts[a].id # ts[b].id => ts[a].order # ts[b].order


\* C17: the cached projects, which the sidebar renders in array order, are in
\* descending order of their order value: a project with a higher order
\* comes before every project with a lower order.
C17_ProjectsDescending ==
    \A i, j \in 1..Len(projects) :
        projects[i].order > projects[j].order => i < j


\* C18: no state of the chart has a bar dragged and a bar resized at the same
\* time: draggingTaskId and resizingTaskId are never both set.
C18_NotDraggingAndResizing == ~(draggingTaskId # NoId /\ resizingTaskId # NoId)


\* C19: a step that changes a preview offset while the gesture stays active
\* (a pointer-move between pointer-down and pointer-up) changes neither the
\* cache nor the requests in flight nor the server; and a step of the chart
\* that issues requests ends a gesture (pointer-up) and issues at most one
\* request for each gesture it ends.
GestureActive == draggingTaskId # NoId \/ resizingTaskId # NoId

GesturesEnded ==
    (IF draggingTaskId # NoId /\ draggingTaskId' = NoId THEN 1 ELSE 0)
    + (IF resizingTaskId # NoId /\ resizingTaskId' = NoId THEN 1 ELSE 0)

PreviewMoved ==
    /\ GestureActive
    /\ draggingTaskId' = draggingTaskId
    /\ resizingTaskId' = resizingTaskId
    /\ <<dragPreviewOffset, resizePreviewOffset>>' # <<dragPreviewOffset, resizePreviewOffset>>

C19_MoveOnlyPreviews ==
    [][/\ PreviewMoved => /\ projects' = projects
                          /\ calls' = calls
                          /\ serverVars' = serverVars
       /\ Len(calls') > Len(calls) => Len(calls') - Len(calls) <= GesturesEnded]_vars

\* C19: task 1 is being dragged, the pointer has moved by two days, and the
\* cache and the server still hold the task's dates, with nothing in flight.
C19_Previewing ==
    /\ draggingTaskId = 1
    /\ dragPreviewOffset = 2
    /\ calls = <<>>
    /\ nops = 0
    /\ TaskValsOf(projects, 1) = {[id |-> 1, projectId |-> 1,
                                   startDate |-> <<2024, 1, 10>>,
                                   endDate |-> <<2024, 1, 12>>, order |-> 0]}
    /\ sTasks = SeedTasks


\* C20: a bar gets hasMovement only in a step whose gesture has computed a
\* nonzero daysOffset; and the pointer-up of a drag whose daysOffset was zero
\* at every move sends no request, changes no cached task and opens the
\* dragged task in the edit form.
MarkedOnlyWhenDaysMoved ==
    \A id \in hasMovement' \ hasMovement : id \in daysMoved'

ZeroDragIsClick ==
    (/\ draggingTaskId # NoId
     /\ draggingTaskId' = NoId
     /\ draggingTaskId \notin daysMoved)
        => /\ calls' = calls
           /\ projects' = projects
           /\ selectedTask' = <<TaskVal(FindTask(ChartTasks, draggingTaskId)[1])>>

C20_ClickWhenNoDayMoved == [][MarkedOnlyWhenDaysMoved /\ ZeroDragIsClick]_vars


\* C21: the pointer-up of a gesture that computed a nonzero daysOffset, with
\* the click that follows it, opens no task in the edit form, whatever
\* gestures and reset timers came before.
GestureEnds == GesturesEnded > 0

C21_ClickSuppressedAfterMovement ==
    [][(GestureEnds /\ ListeningBars \subseteq daysMoved)
           => selectedTask' = selectedTask]_vars


\* C22: the commit of a resize by d # 0 days leaves the cached task's other
\* edge as it was (endDate for the start edge, startDate for the end edge),
\* and the update handleTaskResizeEnd passes to updateTask has the moved
\* edge's date and not the other edge's.
C22_ResizeSendsOnlyMovedEdge ==
    (ResizeBar /\ resizePreviewOffset # 0) =>
        LET T == FindTask(ChartTasks, resizingTaskId)[1]
            d == resizePreviewOffset
            update == ResizeDates(T, resizeEdge, d)
            S == handleTaskResizeEnd(Cur, ChartTasks, resizingTaskId, resizeEdge, d)
        IN  IF resizeEdge = "start"
            THEN /\ \A t \in TaskValsOf(S.projects, T.id) : t.endDate = T.endDate
                 /\ "startDate" \in DOMAIN update
                 /\ "endDate" \notin DOMAIN update
            ELSE /\ \A t \in TaskValsOf(S.projects, T.id) : t.startDate = T.startDate
                 /\ "endDate" \in DOMAIN update
                 /\ "startDate" \notin DOMAIN update


\* C23: in every state the bars with mousemove and mouseup listeners on the
\* document are exactly the bars that are dragging or resizing; an idle bar
\* has none.
C23_ListenersOnlyWhileActive ==
    \A id \in ChartTaskIds \cup listeners :
        id \in listeners <=> (draggingTaskId = id \/ resizingTaskId = id)

\* C23: gestures have begun and ended, the chart is idle again and no bar
\* has a listener left.
C23_IdleAfterGesture ==
    /\ npresses = MaxPresses
    /\ draggingTaskId = NoId
    /\ resizingTaskId = NoId
    /\ listeners = {}


\* The days from three before the earliest start to three after the latest
\* end of the tasks, each at UTC midnight.
PaddedDays(taskList) ==
    LET starts == {ParseDate(taskList[i].startDate) : i \in 1..Len(taskList)}
        ends == {ParseDate(taskList[i].endDate) : i \in 1..Len(taskList)}
        first == (CHOOSE d \in starts : \A e \in starts : d <= e) - 3
        last == (CHOOSE d \in ends : \A e \in ends : e <= d) + 3
    IN  [i \in 1..(last - first + 1) |-> UTCMidnight(first + i - 1)]

RangeComputed ==
    argument.fn = "calculateTimeRange" /\ result # NoResult

\* C24: for a non-empty task collection the timeline range is the ascending
\* sequence of days, one entry per day, from three days before the earliest
\* start date to three days after the latest end date inclusive; it has
\* (latest end - earliest start) + 7 entries, and tasks spanning Jan 10 to
\* Jan 20 give Jan 7 to Jan 23.
C24_RangePadsThreeDays ==
    (RangeComputed /\ argument.taskList # <<>>)
        => result[1] = PaddedDays(argument.taskList)

\* Every bar of taskList stands inside timeRange with three free day columns
\* on each side.
BarsPadded(taskList, timeRange, tz) ==
    \A i \in 1..Len(taskList) :
        /\ startOffset(taskList[i], timeRange, tz) >= 3
        /\ startOffset(taskList[i], timeRange, tz) + duration(taskList[i], tz)
               <= Len(timeRange) - 3

\* C25: after every committed change of the task collection in view the
\* timeline range is computed again from the current collection, so that every
\* task bar lies inside the range with at least three free columns on each
\* side: startOffset >= 3 and startOffset + duration <= length - 3.
C25_BarsKeepThreeFreeColumns ==
    (RangeComputed /\ argument.taskList # <<>>)
        => BarsPadded(argument.taskList, result[1], argument.tz)

DaysOffsetComputed ==
    argument.fn = "handleMouseMove" /\ result # NoResult

\* d is an integer nearest to deltaX / w.
Nearest(d, deltaX, w) ==
    w * (2 * d - 1) <= 2 * deltaX /\ 2 * deltaX <= w * (2 * d + 1)

\* deltaX lies exactly half a column from a column boundary.
HalfColumn(deltaX, w) == (2 * deltaX) % (2 * w) = w

\* C26: the daysOffset of a mousemove is round(deltaX / dayWidth), rounded to
\* a nearest integer and not truncated, for every dayWidth the zoom reaches
\* and every deltaX (0.49 * dayWidth gives 0, 0.51 * dayWidth gives 1,
\* -0.51 * dayWidth gives -1); a displacement of exactly half a column is
\* rounded by one rule whatever its sign, to the later day, so that the
\* mirrored displacement gives the mirrored daysOffset plus one.
C26_RoundsHalfUp ==
    /\ DaysOffsetComputed
           => /\ Nearest(result[1], argument.deltaX, argument.dayWidth)
              /\ HalfColumn(argument.deltaX, argument.dayWidth)
                     => 2 * argument.deltaX < 2 * argument.dayWidth * result[1]
    /\ (DaysOffsetComputed /\ Len(result) = 2)
           => result[2] = (IF HalfColumn(argument.deltaX, argument.dayWidth)
                           THEN 1 ELSE 0) - result[1]

\* Half a column to the left gives daysOffset 0, half a column to the right 1.
C26_HalfColumnLeft ==
    /\ DaysOffsetComputed
    /\ 2 * argument.deltaX = 0 - argument.dayWidth
    /\ result = <<0, 1>>

\* C27: normalizeToUTCDate is idempotent: applied to what it returned it
\* returns the same value, for a "YYYY-MM-DD" string, an ISO string with a
\* time and a Date, in every time zone of the machine.
C27_NormalizeIdempotent ==
    (argument.fn = "normalizeToUTCDate" /\ Len(result) = 2) => result[2] = result[1]

\* The days of the UTC calendar month of the instant t, each at UTC midnight.
MonthDays(t) ==
    LET p == ISODate(UTCDay(t))
    IN  [i \in 1..DaysInMonth(p[1], p[2]) |-> UTCMidnight(DateUTC(p[1], p[2], i))]

\* C28: for an empty task collection the timeline range is exactly the days
\* of the current UTC calendar month, from its first day through its last
\* day, in ascending order without gaps.
C28_EmptyRangeIsMonth ==
    (RangeComputed /\ argument.taskList = <<>>) => result[1] = MonthDays(argument.today)

\* The gestures in progress end with preview offset 0.
ZeroOffsetEnd ==
    /\ GestureEnds
    /\ draggingTaskId # NoId => dragPreviewOffset = 0
    /\ resizingTaskId # NoId => resizePreviewOffset = 0

\* C29: the pointer-up of a drag or resize gesture whose preview offset is 0
\* leaves the store's projects and their tasks as they were and sends no
\* request.
C29_ZeroOffsetChangesNothing ==
    [][ZeroOffsetEnd => (projects' = projects /\ calls' = calls)]_vars

\* One gesture has ended and nothing was sent.
C29_EndedWithoutCommit ==
    /\ npresses = 1
    /\ ~GestureActive
    /\ movementTimers # {}
    /\ nops = 0
    /\ calls = <<>>

\* The chart's gesture state is idle.
Idle ==
    /\ draggingTaskId = NoId
    /\ resizingTaskId = NoId
    /\ resizeEdge = NoEdge
    /\ dragPreviewOffset = 0
    /\ resizePreviewOffset = 0

C31_TasksReferenceTheirProject ==
    \A i \in 1..Len(projects) : \A k \in 1..Len(projects[i].tasks) :
        projects[i].tasks[k].projectId = projects[i].id

\* A task of the first project is in the tasks array of the second: updateTask
\* has changed its projectId.
C31_TaskMoved ==
    \E i \in 1..Len(projects) :
        /\ projects[i].id = 2
        /\ \E k \in 1..Len(projects[i].tasks) : projects[i].tasks[k].id \in DOMAIN SeedTasks

\* C32: each task id occurs at most once in the whole cache, in the tasks
\* array of at most one project, after any sequence of store operations,
\* updateTask calls that change a task's projectId included.
C32_TaskIdsOccurOnce ==
    LET ts == CachedTasks(projects) IN
    \A i, j \in 1..Len(ts) : ts[i].id = ts[j].id => i = j

\* The project a failing project operation is about: none for reorderProjects.
ProjectOf(c) ==
    IF c.op = "updateProject" THEN c.arg.id
    ELSE IF c.op = "deleteProject" THEN c.arg.projectId
    ELSE NoId

\* C33: the rollback of a failed updateProject, deleteProject or
\* reorderProjects undoes only that operation: the tasks of every other
\* project of the cache, with the mutations applied to them since the failing
\* operation started, are in the cache after the rollback as before it.
C33_RollbackUndoesOnlyItsOperation ==
    [][( /\ settled'.call.op \in {"updateProject", "deleteProject", "reorderProjects"}
         /\ settled'.out = "status" )
       => \A i \in 1..Len(projects) :
              projects[i].id # ProjectOf(settled'.call) =>
                  \E j \in 1..Len(projects') :
                      /\ projects'[j].id = projects[i].id
                      /\ ProjectVal(projects'[j]).tasks = ProjectVal(projects[i]).tasks]_vars

\* The step starts a reorderTasks or a reorderProjects: its PATCH is the last
\* call in flight after the step.
ReorderStarts ==
    /\ Len(calls') = Len(calls) + 1
    /\ calls'[Len(calls')].op \in {"reorderTasks", "reorderProjects"}

\* C34: after the optimistic step of reorderTasks(projectId, taskIds), every
\* task of the project whose id is in taskIds has in the cache the order the
\* PATCH payload sends for that id, and after the optimistic step of
\* reorderProjects(projectIds) so has every project whose id is in
\* projectIds, whatever ids the list holds or omits.
C34_CacheOrdersArePatchOrders ==
    [][ReorderStarts =>
          LET patch == calls'[Len(calls')] IN
          IF patch.op = "reorderTasks"
          THEN LET ts == TasksOfProject(projects', patch.arg.projectId) IN
               \A i \in 1..Len(patch.arg.tasks), k \in 1..Len(ts) :
                   ts[k].id = patch.arg.tasks[i].id => ts[k].order = patch.arg.tasks[i].order
          ELSE \A i \in 1..Len(patch.arg.projects), k \in 1..Len(projects') :
                   projects'[k].id = patch.arg.projects[i].id
                       => projects'[k].order = patch.arg.projects[i].order]_vars

\* handleTaskResizeEnd has computed the update of a resize.
ResizeCommitted == argument.fn = "handleTaskResizeEnd" /\ result # NoResult

\* C35: a resize commit never moves an edge against the direction of the
\* gesture: for a task with startDate <= endDate, a negative offset on the
\* end edge commits no endDate later than the task's, and a positive offset
\* on the start edge no startDate earlier than the task's.
C35_EdgeMovesWithGesture ==
    ResizeCommitted =>
        LET T == argument.task
            R == result[1]
        IN  ParseDate(T.startDate) <= ParseDate(T.endDate) =>
                /\ (argument.edge = "end" /\ argument.offset < 0)
                       => ParseDate(R.endDate) <= ParseDate(T.endDate)
                /\ (argument.edge = "start" /\ argument.offset > 0)
                       => ParseDate(R.startDate) >= ParseDate(T.startDate)

\* C36: for every drag or resize, the previewed duration of the bar is at
\* least one day, and the start column and the duration the bar shows just
\* before pointer-up are those of the committed task.
C36_CommitEqualsPreview ==
    argument.fn = "TaskBar" =>
        /\ Len(result) >= 1 => result[1].duration >= 1
        /\ Len(result) = 3 => result[3] = result[1]

\* C37: isLoading is true in every state in which the request of a
\* fetchProjects or of a fetchProjectDetails is in flight, overlapping
\* fetches included.
C37_LoadingWhileFetching ==
    (\E i \in 1..Len(calls) : calls[i].op \in {"fetchProjects", "fetchProjectDetails"})
        => isLoading
====
